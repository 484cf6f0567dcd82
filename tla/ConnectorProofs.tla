--------------------------- MODULE ConnectorProofs ---------------------------
(***************************************************************************)
(* Proofs about the connector for any events, peers, buffer size and       *)
(* number of failing calls: IInv is inductive, hence no event runs twice   *)
(* or without having been given to this node, no callback is called twice, *)
(* no task is in the buffer twice, and the sweep is exact.                 *)
(***************************************************************************)
EXTENDS Connector, FiniteSetTheorems, TLAPS

PollInv == ScanInv /\ NoteInv /\ NoDuplicateTasks /\ SweepLeavesListed

RunsInv == RunInv /\ RunsOnce /\ ReturnInv /\ FiredOnce

LEMMA SlotTypes == EmptySlot \in Slot /\ \A id \in Ids, b, c \in BOOLEAN :
                      [id |-> id, note |-> b, empty |-> c] \in Slot
BY DEF EmptySlot, Slot

LEMMA InitInv == Init => IInv
<1> SUFFICES ASSUME Init PROVE IInv
  OBVIOUS
<1> USE ConnectorAssumption
<1>1. buffer \in Seq(Slot) /\ \A j \in DOMAIN buffer : buffer[j].empty
  BY SlotTypes DEF Init, EmptySlot
<1>2. TypeOK
  <2>1. Len(buffer) \in Nat
    BY <1>1
  <2>2. /\ board \in [Ids -> {"unposted", "waiting", "started", "ended"}]
        /\ winner \in [Ids -> {"nobody", "us", "other"}]
        /\ answers \in [1..Peers -> SUBSET Ids]
        /\ ran \in [Ids -> Nat]
        /\ fired \in [Returns -> Nat]
    BY DEF Init
  <2>3. conn \in 1..Peers /\ lost \in 0..MaxLost
    BY DEF Init
  <2>4. /\ empty_thread \in BOOLEAN /\ hung \in BOOLEAN
        /\ ppc = "fetch" /\ todo = {} /\ cur = NoId /\ pslot = 1
        /\ wpc = "get" /\ task = NoId /\ wslot = 1
        /\ returns = {} /\ sent = {} /\ app = NoReturn
    BY DEF Init
  <2> QED BY <1>1, <2>1, <2>2, <2>3, <2>4 DEF TypeOK
<1>3. PollInv
  BY <1>1 DEF Init, PollInv, ScanInv, NoteInv, NoDuplicateTasks, SweepLeavesListed, Holds, Full
<1>4. RunsInv
  BY DEF Init, RunsInv, RunInv, RunsOnce, ReturnInv, FiredOnce
<1> QED BY <1>2, <1>3, <1>4 DEF IInv, PollInv, RunsInv

-----------------------------------------------------------------------------
\* Steps that change one slot

LEMMA SlotUpdate ==
  ASSUME buffer \in Seq(Slot), NEW i \in DOMAIN buffer, NEW s \in Slot,
         buffer' = [buffer EXCEPT ![i] = s]
  PROVE  /\ buffer' \in Seq(Slot)
         /\ Len(buffer') = Len(buffer)
         /\ DOMAIN buffer' = DOMAIN buffer
         /\ buffer'[i] = s
         /\ \A j \in DOMAIN buffer : j # i => buffer'[j] = buffer[j]
  OBVIOUS

\* Emptying a slot, which worker and sweep do, disturbs nothing that the poll
\* relies on.
LEMMA EmptiedInv ==
  ASSUME TypeOK, PollInv, NEW i \in DOMAIN buffer,
         buffer' = [buffer EXCEPT ![i] = EmptySlot],
         UNCHANGED pollVars
  PROVE  PollInv'
<1>1. buffer \in Seq(Slot)
  BY DEF TypeOK
<1>2. /\ DOMAIN buffer' = DOMAIN buffer
      /\ buffer'[i].empty
      /\ \A j \in DOMAIN buffer : j # i => buffer'[j] = buffer[j]
  BY <1>1, SlotTypes, SlotUpdate DEF EmptySlot
<1>3. \A j \in DOMAIN buffer, id \in Ids \cup {NoId} : Holds(j, id)' => Holds(j, id)
  BY <1>2 DEF Holds
<1>4. \A j \in DOMAIN buffer : ~buffer'[j].empty => j # i
  BY <1>2
<1>5. ScanInv'
  BY <1>2, <1>4 DEF PollInv, ScanInv, Holds, pollVars, TypeOK
<1>6. NoteInv'
  BY <1>2, <1>4 DEF PollInv, NoteInv, Full, Done, pollVars
<1>7. NoDuplicateTasks'
  BY <1>2, <1>4 DEF PollInv, NoDuplicateTasks, Holds
<1>8. SweepLeavesListed'
  BY <1>2, <1>4 DEF PollInv, SweepLeavesListed, pollVars
<1> QED BY <1>5, <1>6, <1>7, <1>8 DEF PollInv

-----------------------------------------------------------------------------
\* The type invariant by the thread whose variables it is about

PollType ==
  /\ buffer \in Seq(Slot)
  /\ empty_thread \in BOOLEAN
  /\ ppc \in {"fetch", "take", "next", "check", "add", "sweep", "unnote", "wake"}
  /\ conn \in 1..Peers
  /\ answers \in [1..Peers -> SUBSET Ids]
  /\ todo \subseteq answers[conn]
  /\ cur \in Ids \cup {NoId}
  /\ ppc \in {"check", "add"} => cur \in answers[conn]
  /\ pslot \in 1..(Len(buffer) + 1)

WorkType ==
  /\ wpc \in {"get", "copy", "wait", "judge", "start", "call", "end", "delete", "init"}
  /\ task \in Ids \cup {NoId}
  /\ wpc \in {"judge", "start", "call", "end", "delete", "init"} => task \in Ids
  /\ wslot \in 1..(Len(buffer) + 1)
  /\ wpc \in {"copy", "init"} => wslot \in DOMAIN buffer

RestType ==
  /\ board \in [Ids -> {"unposted", "waiting", "started", "ended"}]
  /\ winner \in [Ids -> {"nobody", "us", "other"}]
  /\ lost \in 0..MaxLost
  /\ returns \subseteq sent
  /\ ran \in [Ids -> Nat]
  /\ fired \in [Returns -> Nat]
  /\ sent \subseteq Returns
  /\ app \in sent \cup {NoReturn}
  /\ hung \in BOOLEAN

LEMMA TypeParts == /\ TypeOK <=> PollType /\ WorkType /\ RestType
                   /\ TypeOK' <=> PollType' /\ WorkType' /\ RestType'
BY DEF TypeOK, PollType, WorkType, RestType

LEMMA InvParts == /\ IInv <=> TypeOK /\ PollInv /\ RunsInv
                  /\ IInv' <=> TypeOK' /\ PollInv' /\ RunsInv'
BY DEF IInv, PollInv, RunsInv

LEMMA LostType ==
  ASSUME lost \in 0..MaxLost, CallFails \/ CallSucceeds
  PROVE  lost' \in 0..MaxLost
BY ConnectorAssumption DEF CallFails, CallSucceeds

\* A step that leaves the worker alone and the buffer no shorter.
LEMMA WorkFrame ==
  ASSUME TypeOK, UNCHANGED workVars, buffer' \in Seq(Slot), Len(buffer') >= Len(buffer)
  PROVE  WorkType'
<1>1. /\ Len(buffer) \in Nat /\ Len(buffer') \in Nat
      /\ DOMAIN buffer = 1..Len(buffer) /\ DOMAIN buffer' = 1..Len(buffer')
  BY DEF TypeOK
<1> QED BY <1>1 DEF TypeOK, WorkType, workVars

LEMMA RunsFrame ==
  ASSUME RunsInv, UNCHANGED <<peerVars, wpc, task, runVars, sendVars>>
  PROVE  RunsInv'
BY DEF RunsInv, RunInv, RunsOnce, ReturnInv, FiredOnce, peerVars, runVars, sendVars

\* What is left to show of a step of the poll.
LEMMA PollFrame ==
  ASSUME IInv, Poll, PollType', PollInv', Len(buffer') >= Len(buffer)
  PROVE  IInv'
<1>1. WorkType'
  BY WorkFrame DEF IInv, Poll, PollType
<1>2. RestType'
  BY TypeParts DEF IInv, Poll, RestType, peerVars, runVars, sendVars
<1>3. RunsInv'
  BY RunsFrame, InvParts DEF Poll, workVars
<1> QED BY <1>1, <1>2, <1>3, TypeParts, InvParts

-----------------------------------------------------------------------------
\* The poll, one action at a time

LEMMA FetchInv == ASSUME IInv, Fetch PROVE IInv'
<1> USE ConnectorAssumption
<1>1. PollType'
  <2>1. answers' \in [1..Peers -> SUBSET Ids]
    <3>1. Listed(conn) \in SUBSET Ids
      BY DEF Listed
    <3>2. answers \in [1..Peers -> SUBSET Ids]
      BY DEF IInv, TypeOK
    <3>3. \/ answers' = [answers EXCEPT ![conn] = Listed(conn)]
          \/ answers' = [answers EXCEPT ![conn] = {}]
      BY DEF Fetch
    <3> HIDE ConnectorAssumption
    <3> QED BY <3>1, <3>2, <3>3
  <2>2. conn' \in 1..Peers /\ ppc' \in {"fetch", "take"}
    BY DEF IInv, TypeOK, Fetch
  <2>3. todo' = {}
    BY DEF IInv, ScanInv, Fetch
  <2> QED BY <2>1, <2>2, <2>3 DEF IInv, TypeOK, PollType, Fetch
<1>2. PollInv'
  BY DEF IInv, TypeOK, PollInv, ScanInv, NoteInv, NoDuplicateTasks, SweepLeavesListed, Fetch, Full, Holds
<1>3. WorkType'
  BY WorkFrame DEF IInv, Fetch, TypeOK
<1>4. RestType'
  BY LostType, TypeParts DEF IInv, Fetch, RestType, peerVars, runVars, sendVars
<1>5. RunsInv'
  BY RunsFrame, InvParts DEF Fetch, workVars
<1> QED BY <1>1, <1>2, <1>3, <1>4, <1>5, TypeParts, InvParts

LEMMA TakeInv == ASSUME IInv, Take PROVE IInv'
<1> USE ConnectorAssumption
<1>1. PollType' /\ Len(buffer') >= Len(buffer)
  BY DEF IInv, TypeOK, PollType, Take, NextConnection, ScanInv
<1>2. PollInv'
  BY DEF IInv, TypeOK, PollInv, ScanInv, NoteInv, NoDuplicateTasks, SweepLeavesListed, Take,
         NextConnection, Full, Holds, Done
<1> QED BY <1>1, <1>2, PollFrame DEF Take

LEMMA NextIdInv == ASSUME IInv, NextId PROVE IInv'
<1> USE ConnectorAssumption
<1>1. /\ Len(buffer) \in Nat /\ buffer' = buffer
      /\ cur = NoId /\ todo \subseteq answers[conn] /\ answers[conn] \subseteq Ids
      /\ \A j \in DOMAIN buffer :
            ~buffer[j].empty => (buffer[j].note <=> buffer[j].id \in answers[conn] \ todo)
  BY DEF IInv, TypeOK, NextId, ScanInv, NoteInv, Full, Done
<1>2. CASE ppc' = "check"
  <2>1. PICK id \in todo : cur' = id /\ todo' = todo \ {id}
    BY <1>2 DEF NextId
  <2>2. PollType' /\ Len(buffer') >= Len(buffer)
    BY <1>1, <1>2, <2>1 DEF IInv, TypeOK, PollType, NextId
  <2>3. ScanInv'
    BY <1>1, <1>2, <2>1 DEF ScanInv, NextId, Holds
  <2>4. Done' = answers[conn] \ todo
    BY <1>1, <2>1 DEF Done, NextId
  <2>5. NoteInv'
    BY <1>1, <1>2, <2>4 DEF NoteInv, Full
  <2>6. NoDuplicateTasks' /\ SweepLeavesListed'
    BY <1>1, <1>2 DEF IInv, NoDuplicateTasks, SweepLeavesListed, Holds
  <2> QED BY <2>2, <2>3, <2>5, <2>6, PollFrame DEF NextId, PollInv
<1>3. CASE ppc' = "sweep"
  <2>1. todo = {} /\ todo' = {} /\ cur' = cur
    BY <1>3 DEF NextId
  <2>2. PollType' /\ Len(buffer') >= Len(buffer)
    BY <1>1, <1>3, <2>1 DEF IInv, TypeOK, PollType, NextId
  <2>3. ScanInv'
    BY <1>1, <1>3, <2>1 DEF ScanInv
  <2>4. Done' = answers[conn] \ todo
    BY <1>1, <2>1 DEF Done, NextId
  <2>5. NoteInv'
    BY <1>1, <1>3, <2>4 DEF NoteInv, Full, NextId
  <2>6. NoDuplicateTasks' /\ SweepLeavesListed'
    BY <1>1, <1>3 DEF IInv, NoDuplicateTasks, SweepLeavesListed, Holds
  <2> QED BY <2>2, <2>3, <2>5, <2>6, PollFrame DEF NextId, PollInv
<1> QED BY <1>2, <1>3 DEF NextId

\* What every step of a scan over the buffer starts from.
LEMMA ScanFacts ==
  ASSUME IInv
  PROVE  /\ buffer \in Seq(Slot) /\ Len(buffer) \in Nat /\ DOMAIN buffer = 1..Len(buffer)
         /\ pslot \in 1..(Len(buffer) + 1)
         /\ answers[conn] \subseteq Ids /\ NoId \notin Ids
         /\ ppc \in {"check", "add"} => cur \in answers[conn] /\ cur \notin todo
         /\ \A j \in DOMAIN buffer : buffer[j] \in Slot
BY ConnectorAssumption DEF IInv, TypeOK, ScanInv

LEMMA check_idInv == ASSUME IInv, check_id PROVE IInv'
<1> USE ScanFacts
<1>1. CASE pslot \in DOMAIN buffer /\ Holds(pslot, cur)
  <2> DEFINE s == [buffer[pslot] EXCEPT !.note = TRUE]
  <2>1. s \in Slot /\ s.id = cur /\ ~s.empty /\ s.note
    BY <1>1 DEF Slot, Holds
  <2>2. /\ buffer' = [buffer EXCEPT ![pslot] = s]
        /\ ppc' = "next" /\ cur' = NoId /\ pslot' = 1
        /\ UNCHANGED <<conn, answers, todo>>
    BY <1>1 DEF check_id, IdDone
  <2>3. /\ buffer' \in Seq(Slot) /\ Len(buffer') = Len(buffer) /\ DOMAIN buffer' = DOMAIN buffer
        /\ buffer'[pslot] = s
        /\ \A j \in DOMAIN buffer : j # pslot => buffer'[j] = buffer[j]
    BY <1>1, <2>1, <2>2, SlotUpdate
  <2>4. \A j \in DOMAIN buffer : Full(j) /\ j # pslot => buffer[j].id # cur
    BY <1>1 DEF IInv, NoDuplicateTasks, Holds, Full
  <2>5. Done' = Done \cup {cur}
    BY <2>2 DEF Done, check_id
  <2>6. PollType'
    BY <2>2, <2>3 DEF IInv, TypeOK, PollType, check_id
  <2>7. ScanInv' /\ SweepLeavesListed'
    BY <2>2 DEF ScanInv, SweepLeavesListed
  <2>8. NoteInv'
    BY <2>1, <2>2, <2>3, <2>4, <2>5 DEF IInv, NoteInv, Full, Done, check_id
  <2>9. NoDuplicateTasks'
    BY <1>1, <2>1, <2>3 DEF IInv, NoDuplicateTasks, Holds
  <2> QED BY <2>3, <2>6, <2>7, <2>8, <2>9, PollFrame DEF check_id, PollInv
<1>2. CASE pslot \in DOMAIN buffer /\ ~Holds(pslot, cur)
  <2>1. PollType' /\ Len(buffer') >= Len(buffer)
    BY <1>2 DEF check_id, IInv, TypeOK, PollType
  <2>2. ScanInv'
    BY <1>2 DEF check_id, IInv, ScanInv, Holds
  <2>3. NoteInv' /\ NoDuplicateTasks' /\ SweepLeavesListed'
    BY <1>2 DEF check_id, IInv, NoteInv, NoDuplicateTasks, SweepLeavesListed, Full, Done, Holds
  <2> QED BY <2>1, <2>2, <2>3, PollFrame DEF check_id, PollInv
<1>3. CASE pslot \notin DOMAIN buffer
  <2>1. PollType' /\ Len(buffer') >= Len(buffer)
    BY <1>3 DEF check_id, IInv, TypeOK, PollType
  <2>2. ppc = "check" /\ ppc' = "add" /\ UNCHANGED <<buffer, cur, conn, answers, todo>>
    BY <1>3 DEF check_id
  <2>3. \A j \in DOMAIN buffer : ~Holds(j, cur)
    BY <1>3, <2>2 DEF IInv, ScanInv
  <2>4. ScanInv'
    BY <2>2, <2>3 DEF IInv, ScanInv, Holds
  <2>5. NoteInv' /\ NoDuplicateTasks' /\ SweepLeavesListed'
    BY <2>2 DEF IInv, NoteInv, NoDuplicateTasks, SweepLeavesListed, Full, Done, Holds
  <2> QED BY <2>1, <2>4, <2>5, PollFrame DEF check_id, PollInv
<1> QED BY <1>1, <1>2, <1>3

LEMMA addInv == ASSUME IInv, add PROVE IInv'
<1> USE ScanFacts
<1> DEFINE s == [id |-> cur, note |-> TRUE, empty |-> FALSE]
<1>0. Poll /\ ppc = "add" /\ UNCHANGED <<empty_thread, conn, answers, todo>>
  BY DEF add
<1>1. CASE pslot \in DOMAIN buffer /\ buffer[pslot].empty
  <2>1. s \in Slot
    BY SlotTypes DEF add
  <2>2. /\ buffer' = [buffer EXCEPT ![pslot] = s]
        /\ ppc = "add" /\ ppc' = "next" /\ cur' = NoId /\ pslot' = 1
        /\ UNCHANGED <<conn, answers, todo>>
    BY <1>1 DEF add, IdDone
  <2>3. /\ buffer' \in Seq(Slot) /\ Len(buffer') = Len(buffer) /\ DOMAIN buffer' = DOMAIN buffer
        /\ buffer'[pslot] = s
        /\ \A j \in DOMAIN buffer : j # pslot => buffer'[j] = buffer[j]
    BY <1>1, <2>1, <2>2, SlotUpdate
  <2>4. \A j \in DOMAIN buffer : Full(j) => buffer[j].id # cur
    BY <2>2 DEF IInv, ScanInv, Holds, Full
  <2>5. Done' = Done \cup {cur}
    BY <2>2 DEF Done
  <2>6. PollType'
    BY <1>0, <2>2, <2>3 DEF IInv, TypeOK, PollType
  <2>7. ScanInv' /\ SweepLeavesListed'
    BY <2>2 DEF ScanInv, SweepLeavesListed
  <2>8. NoteInv'
    BY <1>1, <2>2, <2>3, <2>4, <2>5 DEF IInv, NoteInv, Full
  <2>9. NoDuplicateTasks'
    <3> SUFFICES ASSUME NEW j \in DOMAIN buffer, NEW k \in DOMAIN buffer,
                        ~buffer'[j].empty, ~buffer'[k].empty, buffer'[j].id = buffer'[k].id
                 PROVE  j = k
      BY <2>3 DEF NoDuplicateTasks, Holds
    <3>1. CASE j = pslot \/ k = pslot
      BY <3>1, <2>3, <2>4 DEF Full
    <3>2. CASE j # pslot /\ k # pslot
      BY <3>2, <2>3 DEF IInv, NoDuplicateTasks, Holds
    <3> QED BY <3>1, <3>2
  <2> QED BY <1>0, <2>3, <2>6, <2>7, <2>8, <2>9, PollFrame DEF PollInv
<1>2. CASE pslot \in DOMAIN buffer /\ ~buffer[pslot].empty
  <2>1. PollType' /\ Len(buffer') >= Len(buffer)
    BY <1>2 DEF add, IInv, TypeOK, PollType
  <2>2. PollInv'
    BY <1>2 DEF add, IInv, PollInv, ScanInv, NoteInv, NoDuplicateTasks, SweepLeavesListed,
                Full, Done, Holds
  <2> QED BY <2>1, <2>2, PollFrame DEF add
<1>3. CASE pslot \notin DOMAIN buffer
  <2> DEFINE t == [id |-> cur, note |-> TRUE, empty |-> TRUE]
  <2>1. t \in Slot
    BY SlotTypes DEF add
  <2>2. /\ buffer' = Append(buffer, t)
        /\ ppc = "add" /\ ppc' = "next" /\ cur' = NoId /\ pslot' = 1
        /\ UNCHANGED <<conn, answers, todo>>
    BY <1>3 DEF add, IdDone
  <2>3. /\ buffer' \in Seq(Slot) /\ Len(buffer') = Len(buffer) + 1
        /\ DOMAIN buffer' = DOMAIN buffer \cup {Len(buffer) + 1}
        /\ buffer'[Len(buffer) + 1].empty
        /\ \A j \in DOMAIN buffer : buffer'[j] = buffer[j]
    BY <2>1, <2>2
  <2>4. \A j \in DOMAIN buffer' : ~buffer'[j].empty => j \in DOMAIN buffer
    BY <2>3
  <2>5. \A j \in DOMAIN buffer : Full(j) => buffer[j].id # cur
    BY <2>2 DEF IInv, ScanInv, Holds, Full
  <2>6. Done' = Done \cup {cur}
    BY <2>2 DEF Done
  <2>7. PollType'
    BY <1>0, <2>2, <2>3 DEF IInv, TypeOK, PollType
  <2>8. ScanInv' /\ SweepLeavesListed'
    BY <2>2 DEF ScanInv, SweepLeavesListed
  <2>9. NoteInv'
    BY <2>2, <2>3, <2>4, <2>5, <2>6 DEF IInv, NoteInv, Full
  <2>10. NoDuplicateTasks'
    BY <2>3, <2>4 DEF IInv, NoDuplicateTasks, Holds
  <2> QED BY <1>0, <2>3, <2>7, <2>8, <2>9, <2>10, PollFrame DEF PollInv
<1> QED BY <1>1, <1>2, <1>3

LEMMA delete_notnoteInv == ASSUME IInv, delete_notnote PROVE IInv'
<1> USE ScanFacts
<1>0. Poll /\ ppc = "sweep" /\ UNCHANGED <<empty_thread, conn, answers, todo, cur>>
  BY DEF delete_notnote
<1>1. CASE pslot \in DOMAIN buffer /\ ~buffer[pslot].empty /\ ~buffer[pslot].note
  <2>1. /\ buffer' = [buffer EXCEPT ![pslot] = EmptySlot]
        /\ ppc' = "sweep" /\ pslot' = pslot + 1
    BY <1>0, <1>1 DEF delete_notnote
  <2>2. /\ buffer' \in Seq(Slot) /\ Len(buffer') = Len(buffer) /\ DOMAIN buffer' = DOMAIN buffer
        /\ buffer'[pslot].empty
        /\ \A j \in DOMAIN buffer : j # pslot => buffer'[j] = buffer[j]
    BY <1>1, <2>1, SlotTypes, SlotUpdate DEF EmptySlot
  <2>3. PollType'
    BY <1>0, <1>1, <2>1, <2>2 DEF IInv, TypeOK, PollType
  <2>4. ScanInv' /\ SweepLeavesListed'
    BY <1>0, <2>1 DEF IInv, ScanInv, SweepLeavesListed
  <2>5. NoteInv'
    BY <1>0, <2>1, <2>2 DEF IInv, NoteInv, Full, Done
  <2>6. NoDuplicateTasks'
    BY <2>2 DEF IInv, NoDuplicateTasks, Holds
  <2> QED BY <1>0, <2>2, <2>3, <2>4, <2>5, <2>6, PollFrame DEF PollInv
<1>2. CASE pslot \in DOMAIN buffer /\ (buffer[pslot].empty \/ buffer[pslot].note)
  <2>1. buffer' = buffer /\ ppc' = "sweep" /\ pslot' = pslot + 1
    BY <1>0, <1>2 DEF delete_notnote
  <2>2. PollType' /\ Len(buffer') >= Len(buffer)
    BY <1>0, <1>2, <2>1 DEF IInv, TypeOK, PollType
  <2>3. ScanInv' /\ SweepLeavesListed'
    BY <1>0, <2>1 DEF IInv, ScanInv, SweepLeavesListed
  <2>4. NoteInv' /\ NoDuplicateTasks'
    BY <1>0, <1>2, <2>1 DEF IInv, NoteInv, NoDuplicateTasks, Full, Done, Holds
  <2> QED BY <1>0, <2>2, <2>3, <2>4, PollFrame DEF PollInv
<1>3. CASE pslot \notin DOMAIN buffer
  <2>1. buffer' = buffer /\ ppc' = "unnote" /\ pslot' = 1
    BY <1>0, <1>3 DEF delete_notnote
  <2>2. \A j \in DOMAIN buffer : Full(j) => buffer[j].note /\ buffer[j].id \in Done
    BY <1>0, <1>3 DEF IInv, NoteInv, Full
  <2>3. PollType' /\ Len(buffer') >= Len(buffer)
    BY <1>0, <2>1 DEF IInv, TypeOK, PollType
  <2>4. ScanInv'
    BY <1>0, <2>1 DEF IInv, ScanInv
  <2>5. NoteInv' /\ NoDuplicateTasks'
    BY <1>0, <2>1 DEF IInv, NoteInv, NoDuplicateTasks, Full, Done, Holds
  <2>6. SweepLeavesListed'
    BY <1>0, <2>1, <2>2 DEF SweepLeavesListed, Full, Done
  <2> QED BY <1>0, <2>3, <2>4, <2>5, <2>6, PollFrame DEF PollInv
<1> QED BY <1>1, <1>2, <1>3

LEMMA note_allInv == ASSUME IInv, note_all PROVE IInv'
<1> USE ScanFacts
<1>0. Poll /\ ppc = "unnote" /\ UNCHANGED <<empty_thread, conn, answers, todo, cur>>
  BY DEF note_all
<1>1. CASE pslot \in DOMAIN buffer /\ ~buffer[pslot].empty
  <2> DEFINE s == [buffer[pslot] EXCEPT !.note = FALSE]
  <2>1. s \in Slot /\ s.id = buffer[pslot].id /\ ~s.empty /\ ~s.note
    BY <1>1 DEF Slot
  <2>2. /\ buffer' = [buffer EXCEPT ![pslot] = s]
        /\ ppc' = "unnote" /\ pslot' = pslot + 1
    BY <1>0, <1>1 DEF note_all
  <2>3. /\ buffer' \in Seq(Slot) /\ Len(buffer') = Len(buffer) /\ DOMAIN buffer' = DOMAIN buffer
        /\ buffer'[pslot] = s
        /\ \A j \in DOMAIN buffer : j # pslot => buffer'[j] = buffer[j]
    BY <1>1, <2>1, <2>2, SlotUpdate
  <2>4. PollType'
    BY <1>0, <1>1, <2>2, <2>3 DEF IInv, TypeOK, PollType
  <2>5. ScanInv'
    BY <1>0, <2>2 DEF IInv, ScanInv
  <2>6. NoteInv'
    BY <1>0, <2>1, <2>2, <2>3 DEF IInv, NoteInv, Full
  <2>7. \A j \in DOMAIN buffer :
           buffer'[j].id = buffer[j].id /\ buffer'[j].empty = buffer[j].empty
    BY <1>1, <2>1, <2>3 DEF Slot
  <2>8. NoDuplicateTasks'
    BY <2>3, <2>7 DEF IInv, NoDuplicateTasks, Holds
  <2>9. SweepLeavesListed'
    BY <1>0, <2>2, <2>3, <2>7 DEF IInv, SweepLeavesListed
  <2> QED BY <1>0, <2>3, <2>4, <2>5, <2>6, <2>8, <2>9, PollFrame DEF PollInv
<1>2. CASE pslot \in DOMAIN buffer /\ buffer[pslot].empty
  <2>1. buffer' = buffer /\ ppc' = "unnote" /\ pslot' = pslot + 1
    BY <1>0, <1>2 DEF note_all
  <2>2. PollType' /\ Len(buffer') >= Len(buffer)
    BY <1>0, <1>2, <2>1 DEF IInv, TypeOK, PollType
  <2>3. ScanInv' /\ SweepLeavesListed'
    BY <1>0, <2>1 DEF IInv, ScanInv, SweepLeavesListed
  <2>4. NoteInv' /\ NoDuplicateTasks'
    BY <1>0, <1>2, <2>1 DEF IInv, NoteInv, NoDuplicateTasks, Full, Holds
  <2> QED BY <1>0, <2>2, <2>3, <2>4, PollFrame DEF PollInv
<1>3. CASE pslot \notin DOMAIN buffer
  <2>1. buffer' = buffer /\ ppc' = "wake" /\ pslot' = 1
    BY <1>0, <1>3 DEF note_all
  <2>2. PollType' /\ Len(buffer') >= Len(buffer)
    BY <1>0, <2>1 DEF IInv, TypeOK, PollType
  <2>3. ScanInv' /\ SweepLeavesListed'
    BY <1>0, <2>1 DEF IInv, ScanInv, SweepLeavesListed
  <2>4. \A j \in DOMAIN buffer : Full(j) => ~buffer[j].note
    BY <1>0, <1>3 DEF IInv, NoteInv, Full
  <2>5. NoteInv' /\ NoDuplicateTasks'
    BY <1>0, <2>1, <2>4 DEF IInv, NoteInv, NoDuplicateTasks, Full, Holds
  <2> QED BY <1>0, <2>2, <2>3, <2>5, PollFrame DEF PollInv
<1> QED BY <1>1, <1>2, <1>3

LEMMA WakeInv == ASSUME IInv, Wake PROVE IInv'
<1> USE ConnectorAssumption
<1>0. /\ Poll /\ ppc = "wake" /\ ppc' \in {"fetch", "take"} /\ empty_thread' = TRUE
      /\ conn' \in 1..Peers
      /\ answers' = [answers EXCEPT ![conn] = {}]
      /\ UNCHANGED <<buffer, todo, cur, pslot>>
  BY DEF IInv, TypeOK, Wake, NextConnection
<1>1. todo = {}
  BY <1>0 DEF IInv, ScanInv
<1>2. PollType' /\ Len(buffer') >= Len(buffer)
  BY <1>0, <1>1, ScanFacts DEF IInv, TypeOK, PollType
<1>3. ScanInv' /\ SweepLeavesListed'
  BY <1>0 DEF IInv, ScanInv, SweepLeavesListed
<1>4. NoteInv' /\ NoDuplicateTasks'
  BY <1>0 DEF IInv, NoteInv, NoDuplicateTasks, Full, Holds
<1> QED BY <1>0, <1>2, <1>3, <1>4, PollFrame DEF PollInv

-----------------------------------------------------------------------------
\* The worker, one action at a time

\* A step that leaves the poll and the buffer alone.
LEMMA StillFrame ==
  ASSUME IInv, UNCHANGED <<pollVars, buffer>>, empty_thread' \in BOOLEAN
  PROVE  PollType' /\ PollInv'
<1>1. PollType'
  BY DEF IInv, TypeOK, PollType, pollVars
<1>2. ScanInv'
  BY DEF IInv, ScanInv, Holds, pollVars
<1>3. NoteInv' /\ NoDuplicateTasks' /\ SweepLeavesListed'
  BY DEF IInv, NoteInv, NoDuplicateTasks, SweepLeavesListed, Full, Done, Holds, pollVars
<1> QED BY <1>1, <1>2, <1>3 DEF PollInv

\* What is left to show of a step of the worker between its calls of a peer.
LEMMA SeekFrame ==
  ASSUME IInv, Work, UNCHANGED <<peerVars, lost, buffer, runVars>>, WorkType',
         empty_thread' \in BOOLEAN, wpc' # "call"
  PROVE  IInv'
<1>1. PollType' /\ PollInv'
  BY StillFrame DEF Work
<1>2. RestType'
  BY TypeParts DEF IInv, RestType, Work, peerVars, runVars, sendVars
<1>3. RunsInv'
  BY DEF IInv, RunsInv, RunInv, RunsOnce, ReturnInv, FiredOnce, Work, peerVars, runVars, sendVars
<1> QED BY <1>1, <1>2, <1>3, TypeParts, InvParts

LEMMA IdleType ==
  ASSUME TypeOK, Idle
  PROVE  wslot' = 1 /\ wpc' \in {"get", "wait"} /\ empty_thread' \in BOOLEAN
BY DEF TypeOK, Idle

LEMMA get_taskInv == ASSUME IInv, get_task PROVE IInv'
<1>1. Work /\ UNCHANGED <<peerVars, lost, buffer, runVars>> /\ task' = task
  BY DEF get_task
<1>2. WorkType' /\ empty_thread' \in BOOLEAN /\ wpc' # "call"
  BY ScanFacts, IdleType DEF get_task, IInv, TypeOK, WorkType
<1> QED BY <1>1, <1>2, SeekFrame

LEMMA CopyInv == ASSUME IInv, Copy PROVE IInv'
<1>1. Work /\ UNCHANGED <<peerVars, lost, buffer, runVars>>
  BY DEF Copy
<1>2. wslot \in DOMAIN buffer /\ buffer[wslot].id \in Ids \cup {NoId}
  BY ScanFacts DEF Copy, IInv, TypeOK, Slot
<1>3. WorkType' /\ empty_thread' \in BOOLEAN /\ wpc' # "call"
  BY <1>2, ScanFacts, IdleType DEF Copy, IInv, TypeOK, WorkType
<1> QED BY <1>1, <1>3, SeekFrame

LEMMA WaitInv == ASSUME IInv, Wait PROVE IInv'
<1>1. WorkType' /\ empty_thread' \in BOOLEAN /\ wpc' # "call"
  BY DEF Wait, IInv, TypeOK, WorkType
<1> QED BY <1>1, SeekFrame DEF Wait

LEMMA JudgeInv == ASSUME IInv, Judge PROVE IInv'
<1>1. WorkType' /\ empty_thread' \in BOOLEAN /\ wpc' # "call"
  BY ScanFacts DEF Judge, TaskDone, IInv, TypeOK, WorkType
<1> QED BY <1>1, SeekFrame DEF Judge

LEMMA delete_objectInv == ASSUME IInv, delete_object PROVE IInv'
<1>1. WorkType' /\ empty_thread' \in BOOLEAN /\ wpc' # "call"
  BY ScanFacts DEF delete_object, TaskDone, IInv, TypeOK, WorkType
<1> QED BY <1>1, SeekFrame DEF delete_object

\* A start answered with 0 is the first and the only one of its event, hence the
\* event has not run yet.
LEMMA start_eventInv == ASSUME IInv, start_event PROVE IInv'
<1>1. PollType' /\ PollInv'
  BY StillFrame DEF start_event, Work, IInv, TypeOK
<1>2. WorkType'
  BY ScanFacts DEF start_event, Work, IInv, TypeOK, WorkType
<1>3. task \in Ids
  BY DEF start_event, IInv, TypeOK
<1>4. board' \in [Ids -> {"unposted", "waiting", "started", "ended"}]
      /\ winner' \in [Ids -> {"nobody", "us", "other"}]
  BY DEF start_event, Started, peerVars, IInv, TypeOK
<1>5. RestType'
  BY <1>4, LostType, TypeParts DEF start_event, IInv, RestType, Work, runVars, sendVars
<1>6. ran[task] \in Nat /\ ran[task] <= 1
  BY <1>3 DEF IInv, TypeOK, RunsOnce
<1>7. RunInv' /\ RunsOnce'
  <2>1. CASE board[task] = "waiting" /\ Started
    <3>1. ran[task] = 0
      BY <1>3, <1>6, <2>1 DEF IInv, RunInv, RunsOnce
    <3>2. /\ board'[task] = "started" /\ winner'[task] = "us"
          /\ \A id \in Ids : id # task => board'[id] = board[id] /\ winner'[id] = winner[id]
      BY <1>3, <2>1 DEF Started, IInv, TypeOK
    <3> QED BY <1>3, <3>1, <3>2 DEF start_event, IInv, RunInv, RunsOnce, runVars
  <2>2. CASE UNCHANGED peerVars /\ wpc' = "delete"
    BY <2>2 DEF start_event, IInv, RunInv, RunsOnce, runVars, peerVars
  <2> QED BY <2>1, <2>2 DEF start_event
<1>8. ReturnInv' /\ FiredOnce'
  BY DEF start_event, IInv, ReturnInv, FiredOnce, Work, runVars, sendVars
<1> QED BY <1>1, <1>2, <1>5, <1>7, <1>8, TypeParts, InvParts DEF RunsInv

LEMMA CallBackInv == ASSUME IInv, CallBack PROVE IInv'
<1> USE ConnectorAssumption
<1>1. PollType' /\ PollInv'
  BY StillFrame DEF CallBack, Work, IInv, TypeOK
<1>2. WorkType'
  BY DEF CallBack, IInv, TypeOK, WorkType
<1>3. task \in Ids /\ wpc = "call" /\ winner[task] = "us" /\ ran[task] = 0
  BY DEF CallBack, IInv, TypeOK, RunInv
<1>4. /\ ran' \in [Ids -> Nat] /\ ran'[task] = 1
      /\ \A id \in Ids : id # task => ran'[id] = ran[id]
  BY <1>3 DEF CallBack, IInv, TypeOK
<1>5. UNCHANGED <<peerVars, lost, sendVars, hung>> /\ wpc' = "end"
  BY DEF CallBack, Work
<1>6. RunInv' /\ RunsOnce'
  BY <1>3, <1>4, <1>5 DEF IInv, RunInv, RunsOnce, peerVars
<1>7. returns' \subseteq returns /\ fired' \in [Returns -> Nat] /\ ReturnInv' /\ FiredOnce'
  <2>1. CASE Respon[task] \in returns /\ Kind[task] = "res"
    <3> DEFINE r == Respon[task]
    <3>1. r \in Returns /\ r \in sent
      BY <2>1 DEF IInv, TypeOK
    <3>2. fired[r] = 0 /\ fired \in [Returns -> Nat]
      BY <2>1, <3>1 DEF IInv, TypeOK, ReturnInv
    <3>3. /\ returns' = returns \ {r}
          /\ fired' = [fired EXCEPT ![r] = @ + 1]
      BY <2>1 DEF CallBack
    <3>4. /\ fired' \in [Returns -> Nat] /\ fired'[r] = 1
          /\ \A q \in Returns : q # r => fired'[q] = fired[q]
      BY <3>1, <3>2, <3>3
    <3>5. r # app
      BY <2>1 DEF IInv, ReturnInv
    <3> QED BY <3>1, <3>3, <3>4, <3>5, <1>5 DEF IInv, ReturnInv, FiredOnce, sendVars
  <2>2. CASE UNCHANGED <<returns, fired>>
    BY <2>2, <1>5 DEF IInv, TypeOK, ReturnInv, FiredOnce, sendVars
  <2> QED BY <2>1, <2>2 DEF CallBack
<1>8. RestType'
  BY <1>4, <1>5, <1>7 DEF IInv, TypeOK, RestType, peerVars, sendVars
<1> QED BY <1>1, <1>2, <1>6, <1>7, <1>8, TypeParts, InvParts DEF RunsInv

LEMMA end_eventInv == ASSUME IInv, end_event PROVE IInv'
<1>1. PollType' /\ PollInv'
  BY StillFrame DEF end_event, Work, IInv, TypeOK
<1>2. WorkType' /\ task \in Ids
  BY DEF end_event, IInv, TypeOK, WorkType
<1>3. /\ board' \in [Ids -> {"unposted", "waiting", "started", "ended"}]
      /\ \A id \in Ids : board'[id] = board[id] \/ board'[id] = "ended"
  BY <1>2 DEF end_event, IInv, TypeOK
<1>4. RestType'
  BY <1>3, LostType DEF end_event, IInv, TypeOK, RestType, Work, runVars, sendVars
<1>5. RunsInv'
  BY <1>3 DEF end_event, IInv, RunsInv, RunInv, RunsOnce, ReturnInv, FiredOnce, Work, runVars,
              sendVars
<1> QED BY <1>1, <1>2, <1>4, <1>5, TypeParts, InvParts

LEMMA init_taskInv == ASSUME IInv, init_task PROVE IInv'
<1>1. wslot \in DOMAIN buffer /\ UNCHANGED <<pollVars, sendVars, hung, peerVars, lost,
                                               empty_thread, runVars>>
  BY DEF init_task, Work, IInv, TypeOK
<1>2. buffer' \in Seq(Slot) /\ Len(buffer') = Len(buffer)
  BY <1>1, SlotTypes, SlotUpdate DEF init_task, IInv, TypeOK
<1>3. PollInv'
  BY <1>1, EmptiedInv, InvParts DEF init_task
<1>4. PollType'
  BY <1>1, <1>2 DEF IInv, TypeOK, PollType, pollVars
<1>5. WorkType' /\ wpc' # "call"
  BY <1>2, ScanFacts DEF init_task, TaskDone, WorkType
<1>6. RestType'
  BY <1>1, TypeParts DEF IInv, RestType, peerVars, runVars, sendVars
<1>7. RunsInv'
  BY <1>1, <1>5 DEF IInv, RunsInv, RunInv, RunsOnce, ReturnInv, FiredOnce, peerVars, runVars,
                    sendVars
<1> QED BY <1>3, <1>4, <1>5, <1>6, <1>7, TypeParts, InvParts

-----------------------------------------------------------------------------
\* The others

LEMMA EnvironmentInv == ASSUME IInv, Environment PROVE IInv'
<1>1. PollType' /\ PollInv'
  BY StillFrame DEF Environment, IInv, TypeOK
<1>2. WorkType'
  BY WorkFrame DEF Environment, IInv, TypeOK
<1>3. PICK id \in Ids : Post(id) \/ OtherStarts(id) \/ OtherEnds(id)
  BY DEF Environment
<1>4. /\ board' \in [Ids -> {"unposted", "waiting", "started", "ended"}]
      /\ winner' \in [Ids -> {"nobody", "us", "other"}]
  BY <1>3 DEF Post, OtherStarts, OtherEnds, IInv, TypeOK
<1>5. RestType'
  BY <1>4 DEF Environment, IInv, TypeOK, RestType, runVars, sendVars
<1>6. RunInv' /\ RunsOnce'
  <2>1. \A i \in Ids : (winner[i] = "us" <=> winner'[i] = "us")
    BY <1>3 DEF Post, OtherStarts, OtherEnds, IInv, TypeOK, RunInv
  <2>2. \A i \in Ids : board[i] \in {"started", "ended"} => board'[i] \in {"started", "ended"}
    BY <1>3 DEF Post, OtherStarts, OtherEnds, IInv, TypeOK
  <2>3. wpc = "call" => task \in Ids
    BY DEF IInv, TypeOK
  <2> QED BY <2>1, <2>2, <2>3 DEF Environment, IInv, RunInv, RunsOnce, workVars, runVars
<1>7. ReturnInv' /\ FiredOnce'
  BY DEF Environment, IInv, ReturnInv, FiredOnce, runVars, sendVars
<1> QED BY <1>1, <1>2, <1>5, <1>6, <1>7, TypeParts, InvParts DEF RunsInv

LEMMA sendInv == ASSUME IInv, send PROVE IInv'
<1> USE ConnectorAssumption
<1>1. PollType' /\ PollInv'
  BY StillFrame DEF send, IInv, TypeOK
<1>2. WorkType'
  BY WorkFrame DEF send, IInv, TypeOK
<1>3. RestType'
  BY DEF send, IInv, TypeOK, RestType, peerVars
<1>4. RunInv' /\ RunsOnce' /\ FiredOnce'
  BY DEF send, IInv, RunInv, RunsOnce, FiredOnce, peerVars, workVars
<1>5. ReturnInv'
  BY DEF send, IInv, TypeOK, ReturnInv
<1> QED BY <1>1, <1>2, <1>3, <1>4, <1>5, TypeParts, InvParts DEF RunsInv

LEMMA HangInv == ASSUME IInv, Hang PROVE IInv'
<1>1. PollType' /\ PollInv'
  BY StillFrame DEF Hang, IInv, TypeOK
<1>2. WorkType'
  BY WorkFrame DEF Hang, IInv, TypeOK
<1>3. RestType'
  BY DEF Hang, IInv, TypeOK, RestType, peerVars, runVars, sendVars
<1>4. RunsInv'
  BY RunsFrame, InvParts DEF Hang, workVars
<1> QED BY <1>1, <1>2, <1>3, <1>4, TypeParts, InvParts

LEMMA StutterInv == ASSUME IInv, UNCHANGED vars PROVE IInv'
<1>1. PollType' /\ PollInv'
  BY StillFrame DEF vars, IInv, TypeOK
<1>2. WorkType'
  BY WorkFrame DEF vars, IInv, TypeOK
<1>3. RestType'
  BY DEF vars, IInv, TypeOK, RestType, peerVars, runVars, sendVars
<1>4. RunsInv'
  BY RunsFrame, InvParts DEF vars, workVars
<1> QED BY <1>1, <1>2, <1>3, <1>4, TypeParts, InvParts

LEMMA NextInv == ASSUME IInv, [Next]_vars PROVE IInv'
<1>1. CASE Environment
  BY <1>1, EnvironmentInv
<1>2. CASE Loop
  BY <1>2, FetchInv, TakeInv, NextIdInv, check_idInv, addInv, delete_notnoteInv, note_allInv,
     WakeInv DEF Loop
<1>3. CASE Worker
  BY <1>3, get_taskInv, CopyInv, WaitInv, JudgeInv, start_eventInv, CallBackInv, end_eventInv,
     delete_objectInv, init_taskInv DEF Worker
<1>4. CASE send
  BY <1>4, sendInv
<1>5. CASE Hang
  BY <1>5, HangInv
<1>6. CASE UNCHANGED vars
  BY <1>6, StutterInv
<1> QED BY <1>1, <1>2, <1>3, <1>4, <1>5, <1>6 DEF Next

-----------------------------------------------------------------------------
\* The invariant that the two threads, the senders and the peers preserve, in
\* whatever order loop(), worker_task() and send() go through the buffer.
THEOREM ConnectorInvariant == Spec => []IInv
<1>1. Init => IInv
  BY InitInv
<1>2. IInv /\ [Next]_vars => IInv'
  BY NextInv
<1> QED BY <1>1, <1>2, PTL DEF Spec

\* worker_task() runs an event once at most, and only when its own start call
\* was answered with 0, however often the poll lists and loses it.
THEOREM ConnectorRunsOnce == Spec => []RunsOnce
<1>1. IInv => RunsOnce
  BY DEF IInv
<1> QED BY <1>1, ConnectorInvariant, PTL

\* manager_returns calls the callback of a request once at most.
THEOREM ConnectorFiredOnce == Spec => []FiredOnce
<1>1. IInv => FiredOnce
  BY DEF IInv
<1> QED BY <1>1, ConnectorInvariant, PTL

\* check_id() and add() leave no task in the buffer twice, without any mutual
\* exclusion with the worker's deletions.
THEOREM ConnectorNoDuplicateTasks == Spec => []NoDuplicateTasks
<1>1. IInv => NoDuplicateTasks
  BY DEF IInv
<1> QED BY <1>1, ConnectorInvariant, PTL

\* When delete_notnote() is through, the buffer holds what the answer listed.
THEOREM ConnectorSweepLeavesListed == Spec => []SweepLeavesListed
<1>1. IInv => SweepLeavesListed
  BY DEF IInv
<1> QED BY <1>1, ConnectorInvariant, PTL

\* delete_notnote() takes no task away that the answer lists.
THEOREM ConnectorSweepSparesListed == Spec => SweepSparesListed
<1> DEFINE Spares == \A j \in DOMAIN buffer :
                        delete_notnote /\ ~buffer[j].empty /\ buffer[j].id \in answers[conn]
                          => buffer'[j] = buffer[j]
<1>1. IInv /\ [Next]_vars => [Spares]_vars
  <2> SUFFICES ASSUME IInv, delete_notnote, NEW j \in DOMAIN buffer,
                      ~buffer[j].empty, buffer[j].id \in answers[conn]
               PROVE  buffer'[j] = buffer[j]
    OBVIOUS
  <2>1. ppc = "sweep" /\ todo = {} /\ cur = NoId
    BY DEF delete_notnote, IInv, ScanInv
  <2>2. buffer[j].id \in Done
    BY <2>1, ScanFacts DEF Done
  <2>3. buffer[j].note
    BY <2>1, <2>2 DEF IInv, NoteInv, Full
  <2>4. buffer' = buffer \/ (~buffer[pslot].note /\ buffer' = [buffer EXCEPT ![pslot] = EmptySlot])
    BY DEF delete_notnote
  <2> QED BY <2>3, <2>4, ScanFacts
<1> QED BY <1>1, ConnectorInvariant, PTL DEF Spec, SweepSparesListed

-----------------------------------------------------------------------------
\* The worker is about to ask for an event only when it can run it.
AsksFor == wpc = "start" => Kind[task] \in {"res", "req"}

\* worker_task() makes a start call for an event only when it has the handler
\* or when the event is a response, so it takes nothing it would then leave.
THEOREM ConnectorTakesOnlyWhatItRuns == Spec => []TakesOnlyWhatItRuns
<1> DEFINE Inv == AsksFor /\ TakesOnlyWhatItRuns
<1>1. Init => Inv
  BY DEF Init, AsksFor, TakesOnlyWhatItRuns
<1>2. IInv /\ Inv /\ [Next]_vars => Inv'
  <2> SUFFICES ASSUME IInv, AsksFor, TakesOnlyWhatItRuns, [Next]_vars PROVE Inv'
    OBVIOUS
  <2>1. CASE UNCHANGED <<winner, wpc, task>>
    BY <2>1 DEF AsksFor, TakesOnlyWhatItRuns
  <2>2. CASE start_event
    <3>1. task \in Ids /\ Kind[task] \in {"res", "req"}
      BY <2>2 DEF start_event, AsksFor, IInv, TypeOK
    <3>2. wpc' # "start"
      BY <2>2 DEF start_event
    <3>3. winner' = winner \/ winner' = [winner EXCEPT ![task] = "us"]
      BY <2>2 DEF start_event, Started, peerVars
    <3> QED BY <3>1, <3>2, <3>3 DEF AsksFor, TakesOnlyWhatItRuns, IInv, TypeOK
  <2>3. CASE Judge
    BY <2>3 DEF Judge, TaskDone, AsksFor, TakesOnlyWhatItRuns, peerVars
  <2>4. CASE \/ get_task \/ Copy \/ Wait \/ CallBack \/ end_event \/ delete_object \/ init_task
    <3>1. winner' = winner /\ wpc' # "start"
      BY <2>4 DEF get_task, Copy, Wait, CallBack, end_event, delete_object, init_task, Idle,
                  TaskDone, peerVars
    <3> QED BY <3>1 DEF AsksFor, TakesOnlyWhatItRuns
  <2>5. CASE Environment
    <3>1. /\ UNCHANGED workVars
          /\ \A id \in Ids : winner'[id] = "us" => winner[id] = "us"
      BY <2>5 DEF Environment, Post, OtherStarts, OtherEnds, IInv, TypeOK
    <3> QED BY <3>1 DEF AsksFor, TakesOnlyWhatItRuns, workVars
  <2>6. CASE Loop \/ send \/ Hang \/ UNCHANGED vars
    BY <2>1, <2>6 DEF Loop, Fetch, Take, NextId, check_id, add, delete_notnote, note_all, Wake,
                      send, Hang, Poll, vars, peerVars, workVars
  <2> QED BY <2>2, <2>3, <2>4, <2>5, <2>6 DEF Next, Worker
<1>3. Inv => TakesOnlyWhatItRuns
  OBVIOUS
<1> QED BY <1>1, <1>2, <1>3, ConnectorInvariant, PTL DEF Spec

-----------------------------------------------------------------------------
\* How far the buffer grows

FullHasId == \A j \in DOMAIN buffer : Full(j) => buffer[j].id \in Ids

\* When add() has come as far as pslot, the slots before were full, with as many
\* different ids; none of them is cur or in a slot from pslot on.
Passed(f) ==
  /\ \A j, k \in DOMAIN f : f[j] = f[k] => j = k
  /\ \A j \in DOMAIN f : f[j] # cur
  /\ \A j \in DOMAIN f : \A k \in DOMAIN buffer :
        k >= pslot /\ Full(k) => f[j] # buffer[k].id

PassedInv == ppc = "add" => \E f \in [1..(pslot - 1) -> Ids] : Passed(f)

\* A step that leaves add() where it is and at most empties slots.
LEMMA PassedFrame ==
  ASSUME IInv, PassedInv, UNCHANGED <<ppc, pslot, cur>>, DOMAIN buffer' = DOMAIN buffer,
         \A j \in DOMAIN buffer : Full(j)' => Full(j) /\ buffer'[j].id = buffer[j].id
  PROVE  PassedInv'
BY DEF PassedInv, Passed

LEMMA PassedStep ==
  ASSUME IInv, FullHasId, PassedInv, add, pslot \in DOMAIN buffer, ~buffer[pslot].empty
  PROVE  PassedInv'
<1>1. /\ ppc' = "add" /\ ppc = "add" /\ pslot' = pslot + 1
      /\ buffer' = buffer /\ cur' = cur
  BY DEF add
<1>2. pslot \in Nat /\ pslot >= 1 /\ DOMAIN buffer = 1..Len(buffer) /\ Len(buffer) \in Nat
  BY DEF IInv, TypeOK
<1>3. PICK f \in [1..(pslot - 1) -> Ids] : Passed(f)
  BY <1>1 DEF PassedInv
<1>4. Full(pslot) /\ buffer[pslot].id \in Ids /\ buffer[pslot].id # cur
  BY <1>1 DEF FullHasId, Full, IInv, ScanInv, Holds
<1> DEFINE g == [j \in 1..pslot |-> IF j = pslot THEN buffer[pslot].id ELSE f[j]]
<1>5. g \in [1..pslot -> Ids] /\ DOMAIN f = 1..(pslot - 1)
  BY <1>2, <1>4
<1>6. \A j \in 1..pslot : /\ j = pslot => g[j] = buffer[pslot].id
                          /\ j # pslot => j \in DOMAIN f /\ g[j] = f[j]
  BY <1>2, <1>5
<1> HIDE DEF g
<1>7. \A j \in DOMAIN f : f[j] # buffer[pslot].id /\ f[j] # cur
  BY <1>2, <1>3, <1>4 DEF Passed
<1>8. \A j, k \in 1..pslot : g[j] = g[k] => j = k
  BY <1>3, <1>6, <1>7 DEF Passed
<1>9. \A j \in 1..pslot : g[j] # cur
  BY <1>4, <1>6, <1>7
<1>10. ASSUME NEW j \in 1..pslot, NEW k \in DOMAIN buffer, k >= pslot + 1, Full(k)
       PROVE  g[j] # buffer[k].id
  <2>1. k > pslot /\ k # pslot /\ k >= pslot
    BY <1>2, <1>10
  <2>2. CASE j = pslot
    <3>1. buffer[pslot].id # buffer[k].id
      BY <1>4, <1>10, <2>1 DEF IInv, NoDuplicateTasks, Holds, Full
    <3> QED BY <1>6, <2>2, <3>1
  <2>3. CASE j # pslot
    BY <1>3, <1>6, <1>10, <2>1, <2>3 DEF Passed
  <2> QED BY <2>2, <2>3
<1>11. \E h \in [1..pslot -> Ids] :
          /\ \A j, k \in 1..pslot : h[j] = h[k] => j = k
          /\ \A j \in 1..pslot : h[j] # cur
          /\ \A j \in 1..pslot, k \in DOMAIN buffer :
                k >= pslot + 1 /\ Full(k) => h[j] # buffer[k].id
  <2>1. \A j \in 1..pslot, k \in DOMAIN buffer :
           k >= pslot + 1 /\ Full(k) => g[j] # buffer[k].id
    BY <1>10
  <2> QED BY <1>5, <1>8, <1>9, <2>1
<1>12. PICK h \in [1..pslot -> Ids] :
          /\ \A j, k \in 1..pslot : h[j] = h[k] => j = k
          /\ \A j \in 1..pslot : h[j] # cur
          /\ \A j \in 1..pslot, k \in DOMAIN buffer :
                k >= pslot + 1 /\ Full(k) => h[j] # buffer[k].id
  BY <1>11
<1>13. DOMAIN h = 1..pslot /\ 1..(pslot' - 1) = 1..pslot
  BY <1>1, <1>2, <1>12
<1>14. Passed(h)'
  <2>1. \A j, k \in DOMAIN h : h[j] = h[k] => j = k
    BY <1>12, <1>13
  <2>2. \A j \in DOMAIN h : h[j] # cur'
    BY <1>1, <1>12, <1>13
  <2>3. \A j \in DOMAIN h : \A k \in DOMAIN buffer' :
           k >= pslot' /\ Full(k)' => h[j] # buffer'[k].id
    BY <1>1, <1>12, <1>13 DEF Full
  <2> QED BY <2>1, <2>2, <2>3 DEF Passed
<1> QED BY <1>12, <1>13, <1>14 DEF PassedInv

\* A scan that has come to the end has passed as many ids as there are slots.
LEMMA PassedAll ==
  ASSUME IInv, PassedInv, ppc = "add", pslot \notin DOMAIN buffer
  PROVE  Len(buffer) + 1 <= Cardinality(Ids)
<1> USE ConnectorAssumption
<1>1. Len(buffer) \in Nat /\ pslot = Len(buffer) + 1 /\ cur \in Ids
  BY ScanFacts DEF IInv, TypeOK
<1>2. PICK f \in [1..Len(buffer) -> Ids] : Passed(f)
  BY <1>1 DEF PassedInv
<1>3. f \in [1..Len(buffer) -> Ids \ {cur}]
  BY <1>2 DEF Passed
<1>4. /\ IsFiniteSet(Ids \ {cur}) /\ Cardinality(Ids) \in Nat
      /\ Cardinality(Ids \ {cur}) = Cardinality(Ids) - 1
  BY <1>1, FS_RemoveElement, FS_CardinalityType
<1>5. IsFiniteSet(1..Len(buffer)) /\ Cardinality(1..Len(buffer)) = Len(buffer)
  <2> DEFINE n == Len(buffer)
  <2>1. n \in Int /\ 1 \in Int /\ n >= 0
    BY <1>1
  <2> HIDE DEF n
  <2>2. /\ IsFiniteSet(1..n)
        /\ Cardinality(1..n) = IF 1 > n THEN 0 ELSE n - 1 + 1
    BY <2>1, FS_Interval
  <2>3. Cardinality(1..n) = n
    BY <2>1, <2>2
  <2> QED BY <2>2, <2>3 DEF n
<1>6. ~(Cardinality(Ids \ {cur}) < Cardinality(1..Len(buffer)))
  <2> SUFFICES ASSUME Cardinality(Ids \ {cur}) < Cardinality(1..Len(buffer)) PROVE FALSE
    OBVIOUS
  <2> DEFINE S == 1..Len(buffer)
             T == Ids \ {cur}
  <2>1. \E x, y \in S : x # y /\ f[x] = f[y]
    <3>1. IsFiniteSet(S) /\ IsFiniteSet(T) /\ Cardinality(T) < Cardinality(S) /\ f \in [S -> T]
      BY <1>3, <1>4, <1>5
    <3> HIDE DEF S, T
    <3> QED BY <3>1, FS_PigeonHole
  <2> QED BY <1>2, <2>1 DEF Passed
<1> QED BY <1>1, <1>4, <1>5, <1>6

GrowInv == FullHasId /\ PassedInv /\ BufferBounded

\* A step of the worker or of nobody.
LEMMA GrowEmptied ==
  ASSUME IInv, GrowInv, UNCHANGED <<ppc, pslot, cur>>,
         \/ buffer' = buffer
         \/ \E i \in DOMAIN buffer : buffer' = [buffer EXCEPT ![i] = EmptySlot]
  PROVE  GrowInv'
<1>1. buffer \in Seq(Slot)
  BY DEF IInv, TypeOK
<1>2. /\ DOMAIN buffer' = DOMAIN buffer /\ Len(buffer') = Len(buffer)
      /\ \A j \in DOMAIN buffer :
            ~buffer'[j].empty => ~buffer[j].empty /\ buffer'[j].id = buffer[j].id
  <2>1. CASE buffer' = buffer
    BY <2>1
  <2>2. ASSUME NEW i \in DOMAIN buffer, buffer' = [buffer EXCEPT ![i] = EmptySlot]
        PROVE  /\ DOMAIN buffer' = DOMAIN buffer /\ Len(buffer') = Len(buffer)
               /\ \A j \in DOMAIN buffer :
                     ~buffer'[j].empty => ~buffer[j].empty /\ buffer'[j].id = buffer[j].id
    <3>1. /\ DOMAIN buffer' = DOMAIN buffer /\ Len(buffer') = Len(buffer)
          /\ buffer'[i] = EmptySlot
          /\ \A j \in DOMAIN buffer : j # i => buffer'[j] = buffer[j]
      BY <1>1, <2>2, SlotTypes, SlotUpdate
    <3> QED BY <3>1 DEF EmptySlot
  <2> QED BY <2>1, <2>2
<1>3. \A j \in DOMAIN buffer : Full(j)' => Full(j) /\ buffer'[j].id = buffer[j].id
  BY <1>2 DEF Full
<1>4. FullHasId'
  BY <1>2, <1>3 DEF GrowInv, FullHasId
<1>5. PassedInv'
  BY <1>2, <1>3, PassedFrame DEF GrowInv
<1>6. BufferBounded'
  BY <1>2 DEF GrowInv, BufferBounded
<1> QED BY <1>4, <1>5, <1>6 DEF GrowInv

\* A step of the poll outside add() that changes at most the notes.
LEMMA GrowNoted ==
  ASSUME IInv, GrowInv, ppc' = "add" => pslot' = 1,
         DOMAIN buffer' = DOMAIN buffer, Len(buffer') = Len(buffer),
         \A j \in DOMAIN buffer : ~buffer'[j].empty => buffer'[j].id \in Ids
  PROVE  GrowInv'
<1>1. FullHasId'
  BY DEF FullHasId, Full
<1>2. PassedInv'
  <2> SUFFICES ASSUME ppc' = "add" PROVE \E f \in [1..(pslot' - 1) -> Ids] : Passed(f)'
    BY DEF PassedInv
  <2>1. 1..(pslot' - 1) = {}
    OBVIOUS
  <2>2. \E f \in [{} -> Ids] : DOMAIN f = {}
    <3>1. [x \in {} |-> x] \in [{} -> Ids]
      OBVIOUS
    <3> QED BY <3>1
  <2>3. PICK f \in [{} -> Ids] : DOMAIN f = {}
    BY <2>2
  <2>4. Passed(f)'
    BY <2>3 DEF Passed
  <2> QED BY <2>1, <2>3, <2>4
<1>3. BufferBounded'
  BY DEF GrowInv, BufferBounded
<1> QED BY <1>1, <1>2, <1>3 DEF GrowInv

LEMMA GrowAdd == ASSUME IInv, GrowInv, add PROVE GrowInv'
<1>1. buffer \in Seq(Slot) /\ ppc = "add" /\ cur \in Ids
  BY DEF add, IInv, TypeOK
<1>2. CASE pslot \in DOMAIN buffer /\ buffer[pslot].empty
  <2>1. /\ buffer' = [buffer EXCEPT ![pslot] = [id |-> cur, note |-> TRUE, empty |-> FALSE]]
        /\ ppc' = "next"
    BY <1>2 DEF add, IdDone
  <2>2. [id |-> cur, note |-> TRUE, empty |-> FALSE] \in Slot
    BY <1>1, SlotTypes
  <2>3. /\ DOMAIN buffer' = DOMAIN buffer /\ Len(buffer') = Len(buffer)
        /\ buffer'[pslot] = [id |-> cur, note |-> TRUE, empty |-> FALSE]
        /\ \A j \in DOMAIN buffer : j # pslot => buffer'[j] = buffer[j]
    BY <1>1, <1>2, <2>1, <2>2, SlotUpdate
  <2>4. \A j \in DOMAIN buffer : ~buffer'[j].empty => buffer'[j].id \in Ids
    BY <1>1, <2>3 DEF GrowInv, FullHasId, Full
  <2> QED BY <2>1, <2>3, <2>4, GrowNoted
<1>3. CASE pslot \in DOMAIN buffer /\ ~buffer[pslot].empty
  <2>1. PassedInv'
    BY <1>3, PassedStep DEF GrowInv
  <2>2. buffer' = buffer
    BY <1>3 DEF add
  <2> QED BY <2>1, <2>2 DEF GrowInv, FullHasId, Full, BufferBounded
<1>4. CASE pslot \notin DOMAIN buffer
  <2>1. Len(buffer) + 1 <= Cardinality(Ids)
    BY <1>1, <1>4, PassedAll DEF GrowInv
  <2>2. /\ buffer' = Append(buffer, [id |-> cur, note |-> TRUE, empty |-> TRUE])
        /\ ppc' = "next"
    BY <1>4 DEF add, IdDone
  <2>3. [id |-> cur, note |-> TRUE, empty |-> TRUE] \in Slot
    BY <1>1, SlotTypes
  <2> DEFINE s == [id |-> cur, note |-> TRUE, empty |-> TRUE]
  <2>4. s \in Slot /\ s.empty /\ buffer' = Append(buffer, s)
    BY <2>2, <2>3
  <2> HIDE DEF s
  <2>5. /\ Len(buffer') = Len(buffer) + 1
        /\ DOMAIN buffer = 1..Len(buffer) /\ DOMAIN buffer' = 1..(Len(buffer) + 1)
        /\ buffer'[Len(buffer) + 1] = s
        /\ \A j \in 1..Len(buffer) : buffer'[j] = buffer[j]
        /\ Len(buffer) \in Nat
    BY <1>1, <2>4
  <2>6. FullHasId'
    <3> SUFFICES ASSUME NEW j \in DOMAIN buffer', ~buffer'[j].empty PROVE buffer'[j].id \in Ids
      BY DEF FullHasId, Full
    <3>1. j # Len(buffer) + 1
      BY <2>4, <2>5
    <3>2. j \in DOMAIN buffer
      BY <2>5, <3>1
    <3> QED BY <2>5, <3>2 DEF GrowInv, FullHasId, Full
  <2>7. BufferBounded'
    BY <2>1, <2>5 DEF BufferBounded
  <2>8. PassedInv'
    BY <2>2 DEF PassedInv
  <2> QED BY <2>6, <2>7, <2>8 DEF GrowInv
<1> QED BY <1>2, <1>3, <1>4

LEMMA GrowPoll == ASSUME IInv, GrowInv, Loop PROVE GrowInv'
<1>1. buffer \in Seq(Slot)
  BY DEF IInv, TypeOK
<1>2. \A j \in DOMAIN buffer : ~buffer[j].empty => buffer[j].id \in Ids
  BY DEF GrowInv, FullHasId, Full
<1>3. CASE Fetch \/ Take \/ NextId \/ Wake
  <2>1. buffer' = buffer /\ ppc' # "add"
    BY <1>3 DEF Fetch, Take, NextId, Wake, NextConnection, IInv, TypeOK
  <2> QED BY <1>2, <2>1, GrowNoted
<1>4. CASE check_id
  <2>1. CASE /\ pslot \in DOMAIN buffer
             /\ buffer' = [buffer EXCEPT ![pslot].note = TRUE]
             /\ IdDone
    <3>1. \A j \in DOMAIN buffer :
             buffer'[j].empty = buffer[j].empty /\ buffer'[j].id = buffer[j].id
      BY <1>1, <2>1 DEF Slot
    <3>2. DOMAIN buffer' = DOMAIN buffer /\ Len(buffer') = Len(buffer)
      BY <1>1, <2>1
    <3>3. ppc' = "next"
      BY <2>1 DEF IdDone
    <3> QED BY <1>2, <3>1, <3>2, <3>3, GrowNoted
  <2>2. CASE buffer' = buffer /\ (ppc' = ppc \/ pslot' = 1)
    <3>1. ppc = "check"
      BY <1>4 DEF check_id
    <3> QED BY <1>2, <2>2, <3>1, GrowNoted
  <2> QED BY <1>4, <2>1, <2>2 DEF check_id
<1>5. CASE delete_notnote
  <2>1. ppc' # "add"
    BY <1>5 DEF delete_notnote
  <2>2. CASE buffer' = buffer
    BY <1>2, <2>1, <2>2, GrowNoted
  <2>3. CASE pslot \in DOMAIN buffer /\ buffer' = [buffer EXCEPT ![pslot] = EmptySlot]
    <3>1. /\ DOMAIN buffer' = DOMAIN buffer /\ Len(buffer') = Len(buffer)
          /\ buffer'[pslot] = EmptySlot
          /\ \A j \in DOMAIN buffer : j # pslot => buffer'[j] = buffer[j]
      BY <1>1, <2>3, SlotTypes, SlotUpdate
    <3>2. \A j \in DOMAIN buffer : ~buffer'[j].empty => buffer'[j].id \in Ids
      BY <1>2, <3>1 DEF EmptySlot
    <3> QED BY <2>1, <3>1, <3>2, GrowNoted
  <2> QED BY <1>5, <2>2, <2>3 DEF delete_notnote
<1>6. CASE note_all
  <2>1. ppc' # "add"
    BY <1>6 DEF note_all
  <2>2. CASE buffer' = buffer
    BY <1>2, <2>1, <2>2, GrowNoted
  <2>3. CASE pslot \in DOMAIN buffer /\ buffer' = [buffer EXCEPT ![pslot].note = FALSE]
    <3>1. \A j \in DOMAIN buffer :
             buffer'[j].empty = buffer[j].empty /\ buffer'[j].id = buffer[j].id
      BY <1>1, <2>3 DEF Slot
    <3>2. DOMAIN buffer' = DOMAIN buffer /\ Len(buffer') = Len(buffer)
      BY <1>1, <2>3
    <3> QED BY <1>2, <2>1, <3>1, <3>2, GrowNoted
  <2> QED BY <1>6, <2>2, <2>3 DEF note_all
<1> QED BY <1>3, <1>4, <1>5, <1>6, GrowAdd DEF Loop

\* A full buffer grows although it does not take the task, but never beyond
\* the number of events that can fill it at one time.
THEOREM ConnectorBufferBounded == Spec => []BufferBounded
<1>1. Init => GrowInv
  <2> SUFFICES ASSUME Init PROVE GrowInv
    OBVIOUS
  <2>1. /\ buffer = [j \in 1..InitialSlots |-> EmptySlot] /\ InitialSlots \in Nat
        /\ ppc = "fetch"
    BY ConnectorAssumption DEF Init
  <2>2. Len(buffer) = InitialSlots /\ \A j \in DOMAIN buffer : buffer[j].empty
    BY <2>1 DEF EmptySlot
  <2> QED BY <2>1, <2>2 DEF GrowInv, FullHasId, Full, PassedInv, BufferBounded
<1>2. IInv /\ GrowInv /\ [Next]_vars => GrowInv'
  <2> SUFFICES ASSUME IInv, GrowInv, [Next]_vars PROVE GrowInv'
    OBVIOUS
  <2>1. CASE Loop
    BY <2>1, GrowPoll
  <2>2. CASE init_task
    <3>1. /\ wslot \in DOMAIN buffer
          /\ buffer' = [buffer EXCEPT ![wslot] = EmptySlot]
          /\ UNCHANGED <<ppc, pslot, cur>>
      BY <2>2 DEF init_task, Work, pollVars, IInv, TypeOK
    <3> QED BY <3>1, GrowEmptied
  <2>3. CASE \/ Environment \/ send \/ Hang \/ UNCHANGED vars
             \/ get_task \/ Copy \/ Wait \/ Judge \/ start_event \/ CallBack \/ end_event
             \/ delete_object
    <3>1. UNCHANGED <<buffer, ppc, pslot, cur>>
      BY <2>3 DEF Environment, send, Hang, vars, get_task, Copy, Wait, Judge, start_event,
                  CallBack, end_event, delete_object, Work, pollVars
    <3> QED BY <3>1, GrowEmptied
  <2> QED BY <2>1, <2>2, <2>3 DEF Next, Worker
<1>3. GrowInv => BufferBounded
  BY DEF GrowInv
<1> QED BY <1>1, <1>2, <1>3, ConnectorInvariant, PTL DEF Spec

-----------------------------------------------------------------------------
\* Events taken and left unfinished

LEMMA CallsLost == ASSUME IInv, CallFails \/ CallSucceeds PROVE lost' \in Nat /\ lost' >= lost
BY DEF CallFails, CallSucceeds, IInv, TypeOK

\* As the worker goes from one call to the next, the event it works on stays out.
StrandsNothing == Stranded' \subseteq Stranded /\ lost' >= lost

StrandsOne == \E id \in Ids : Stranded' \subseteq Stranded \cup {id} /\ lost' = lost + 1

LEMMA start_eventStrands == ASSUME IInv, start_event PROVE StrandsNothing \/ StrandsOne
<1>1. task \in Ids /\ wpc = "start" /\ task' = task
  BY DEF start_event, IInv, TypeOK
<1>2. \A id \in Ids : id # task => board'[id] = board[id] /\ winner'[id] = winner[id]
  BY <1>1 DEF start_event, Started, peerVars, IInv, TypeOK
<1>3. CASE Started /\ CallSucceeds /\ wpc' = "call"
  BY <1>1, <1>2, <1>3, CallsLost DEF Stranded, StrandsNothing
<1>4. CASE UNCHANGED peerVars /\ CallSucceeds /\ wpc' = "delete"
  BY <1>1, <1>4, CallsLost DEF Stranded, StrandsNothing, peerVars
<1>5. CASE CallFails /\ wpc' = "delete"
  <2>1. Stranded' \subseteq Stranded \cup {task} /\ lost' = lost + 1
    BY <1>1, <1>2, <1>5 DEF Stranded, CallFails
  <2> QED BY <1>1, <2>1 DEF StrandsOne
<1> QED BY <1>3, <1>4, <1>5 DEF start_event

LEMMA end_eventStrands == ASSUME IInv, end_event PROVE StrandsNothing \/ StrandsOne
<1>1. task \in Ids /\ wpc = "end" /\ wpc' = "delete" /\ UNCHANGED <<task, winner>>
  BY DEF end_event, IInv, TypeOK
<1>2. \A id \in Ids : id # task => board'[id] = board[id]
  BY <1>1 DEF end_event, IInv, TypeOK
<1>3. CASE CallSucceeds /\ board' = [board EXCEPT ![task] = "ended"]
  <2>1. board'[task] = "ended"
    BY <1>1, <1>3 DEF IInv, TypeOK
  <2> QED BY <1>1, <1>2, <1>3, <2>1, CallsLost DEF Stranded, StrandsNothing
<1>4. CASE CallFails
  <2>1. Stranded' \subseteq Stranded \cup {task} /\ lost' = lost + 1
    BY <1>1, <1>2, <1>4 DEF Stranded, CallFails
  <2> QED BY <1>1, <2>1 DEF StrandsOne
<1> QED BY <1>3, <1>4 DEF end_event

LEMMA OthersStrandNothing ==
  ASSUME IInv, [Next]_vars, ~start_event, ~end_event PROVE StrandsNothing
<1>1. CASE Environment
  <2>1. UNCHANGED <<lost, workVars>>
    BY <1>1 DEF Environment
  <2>2. PICK id \in Ids : Post(id) \/ OtherStarts(id) \/ OtherEnds(id)
    BY <1>1 DEF Environment
  <2>3. \A i \in Ids : winner'[i] = "us" /\ board'[i] = "started"
                         => winner[i] = "us" /\ board[i] = "started"
    BY <2>2 DEF Post, OtherStarts, OtherEnds, IInv, TypeOK
  <2>4. lost' >= lost
    BY <2>1 DEF IInv, TypeOK
  <2> QED BY <2>1, <2>3, <2>4 DEF Stranded, StrandsNothing, workVars
<1>2. CASE Loop \/ send \/ Hang \/ UNCHANGED vars
  <2>1. UNCHANGED <<board, winner, wpc, task>>
    BY <1>2 DEF Loop, Fetch, Take, NextId, check_id, add, delete_notnote, note_all, Wake, Poll,
                send, Hang, vars, peerVars, workVars
  <2>2. lost' = lost \/ CallFails \/ CallSucceeds
    BY <1>2 DEF Loop, Fetch, Take, NextId, check_id, add, delete_notnote, note_all, Wake, Poll,
                send, Hang, vars
  <2>3. lost' >= lost
    BY <2>2, CallsLost DEF IInv, TypeOK
  <2> QED BY <2>1, <2>3 DEF Stranded, StrandsNothing
<1>3. CASE CallBack
  <2>1. UNCHANGED <<board, winner, task, lost>> /\ wpc = "call" /\ wpc' = "end"
    BY <1>3 DEF CallBack, peerVars
  <2>2. lost' >= lost
    BY <2>1 DEF IInv, TypeOK
  <2> QED BY <2>1, <2>2 DEF Stranded, StrandsNothing
<1>4. CASE get_task \/ Copy \/ Wait \/ Judge \/ delete_object \/ init_task
  <2>1. UNCHANGED <<board, winner, lost>> /\ wpc \notin {"call", "end"} /\ wpc' \notin {"call", "end"}
    BY <1>4 DEF get_task, Copy, Wait, Judge, delete_object, init_task, Idle, TaskDone, peerVars
  <2>2. lost' >= lost
    BY <2>1 DEF IInv, TypeOK
  <2> QED BY <2>1, <2>2 DEF Stranded, StrandsNothing
<1> QED BY <1>1, <1>2, <1>3, <1>4 DEF Next, Worker

LEMMA StrandedFinite == IsFiniteSet(Stranded)
BY ConnectorAssumption, FS_Subset DEF Stranded

LEMMA StrandedStep ==
  ASSUME IInv, StrandedByLostCalls, StrandsNothing \/ StrandsOne, IInv'
  PROVE  StrandedByLostCalls'
<1>1. lost \in Nat /\ lost' \in Nat /\ IsFiniteSet(Stranded)
  BY StrandedFinite DEF IInv, TypeOK
<1>2. Cardinality(Stranded) \in Nat
  BY <1>1, FS_CardinalityType
<1>3. CASE StrandsNothing
  <2>1. Cardinality(Stranded') <= Cardinality(Stranded)
    BY <1>1, <1>3, FS_Subset DEF StrandsNothing
  <2>2. Cardinality(Stranded') \in Nat
    BY <1>1, <1>3, FS_Subset, FS_CardinalityType DEF StrandsNothing
  <2> QED BY <1>1, <1>2, <1>3, <2>1, <2>2 DEF StrandedByLostCalls, StrandsNothing
<1>4. CASE StrandsOne
  <2>1. PICK id \in Ids : Stranded' \subseteq Stranded \cup {id} /\ lost' = lost + 1
    BY <1>4 DEF StrandsOne
  <2>2. /\ IsFiniteSet(Stranded \cup {id})
        /\ Cardinality(Stranded \cup {id}) <= Cardinality(Stranded) + 1
        /\ Cardinality(Stranded \cup {id}) \in Nat
    <3>1. /\ IsFiniteSet(Stranded \cup {id})
          /\ \/ Cardinality(Stranded \cup {id}) = Cardinality(Stranded)
             \/ Cardinality(Stranded \cup {id}) = Cardinality(Stranded) + 1
      BY <1>1, FS_AddElement
    <3> QED BY <1>2, <3>1
  <2>3. /\ Cardinality(Stranded') <= Cardinality(Stranded \cup {id})
        /\ Cardinality(Stranded') \in Nat
    BY <2>1, <2>2, FS_Subset, FS_CardinalityType
  <2> QED BY <1>1, <1>2, <2>1, <2>2, <2>3 DEF StrandedByLostCalls
<1> QED BY <1>3, <1>4

\* Each event that start_event() got and that is neither being worked on nor
\* finished at the peer has cost a call whose answer worker_task() did not see.
THEOREM ConnectorStrandedByLostCalls == Spec => []StrandedByLostCalls
<1>1. Init => StrandedByLostCalls
  <2> SUFFICES ASSUME Init PROVE StrandedByLostCalls
    OBVIOUS
  <2>1. Stranded = {} /\ lost = 0
    BY DEF Init, Stranded
  <2> QED BY <2>1, FS_EmptySet DEF StrandedByLostCalls
<1>2. IInv /\ StrandedByLostCalls /\ [Next]_vars => StrandedByLostCalls'
  <2> SUFFICES ASSUME IInv, StrandedByLostCalls, [Next]_vars PROVE StrandedByLostCalls'
    OBVIOUS
  <2>1. StrandsNothing \/ StrandsOne
    BY start_eventStrands, end_eventStrands, OthersStrandNothing
  <2>2. IInv'
    BY NextInv
  <2> QED BY <2>1, <2>2, StrandedStep
<1> QED BY <1>1, <1>2, ConnectorInvariant, PTL DEF Spec
=============================================================================
