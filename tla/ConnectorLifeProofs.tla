------------------------- MODULE ConnectorLifeProofs -------------------------
(***************************************************************************)
(* Proofs about the life cycle of the connector, for any number of peers   *)
(* and of calls of on() and off().                                         *)
(***************************************************************************)
EXTENDS ConnectorLife, FiniteSetTheorems, TLAPS

LEMMA DeletedFinite == ASSUME NEW p PROVE IsFiniteSet(Deleted(p))
<1>1. IsFiniteSet(Pairs)
  BY LifeAssumption, FS_Interval DEF Pairs
<1> QED BY <1>1, FS_Subset DEF Deleted

\* The parts of TypeOK.
Numbers ==
  /\ ons \in 0..MaxOn /\ offs \in 0..MaxOff
  /\ th \in 0..ons /\ th_worker \in 0..ons
  /\ joined \subseteq Objects
  /\ deleted \subseteq joined
  /\ conn \in [Pairs -> Nat]

Places ==
  /\ on_pc \in {"idle", "getid", "work_loop", "th", "th_worker"}
  /\ off_pc \in {"idle", "work_loop", "join", "join_worker", "delete", "delete_worker", "exit"}
  /\ ppc \in [Pairs -> {"none", "loop", "getevent", "ended"}]
  /\ wpc \in [Pairs -> {"none", "loop", "get", "run", "doze", "wait", "ended"}]
  /\ {work_loop, empty_thread, destroying, crashed, paired} \subseteq BOOLEAN

LEMMA TypeParts == TypeOK <=> Numbers /\ Places /\ hung \subseteq Actors
BY DEF TypeOK, Numbers, Places

LEMMA InitInv == Init => IInv
<1> SUFFICES ASSUME Init PROVE IInv
  OBVIOUS
<1>1. TypeOK
  <2>1. Numbers
    BY LifeAssumption DEF Init, Numbers
  <2>2. Places
    BY DEF Init, Places
  <2>3. hung \subseteq Actors
    BY DEF Init
  <2> QED BY <2>1, <2>2, <2>3, TypeParts
<1>2. CountInv
  <2>1. Deleted("th") = {} /\ Deleted("th_worker") = {}
    BY DEF Init, Deleted
  <2> QED BY <2>1, FS_EmptySet DEF CountInv, Init
<1>3. PairedInv /\ ObjectInv
  BY DEF PairedInv, ObjectInv, Init, Running, Pairs
<1> QED BY <1>1, <1>2, <1>3 DEF IInv

\* A step is one of the life cycle's, or changes nothing of it.
LEMMA StepKinds ==
  [Next]_vars => \/ UNCHANGED lifeVars
                 \/ UseAfterDestruction \/ CallOn \/ On \/ CallOff \/ finish_loop \/ exit
                 \/ \E k \in Pairs : Loop(k) \/ Worker(k)
BY DEF Next, Calls, Threads, Hang, vars

LEMMA HungStep == hung \subseteq Actors /\ [Next]_vars => hung' \subseteq Actors
BY DEF Next, Hang, vars

LEMMA NumbersStep == TypeOK /\ [Next]_vars => Numbers'
<1> SUFFICES ASSUME Numbers, Places, [Next]_vars PROVE Numbers'
  BY TypeParts
<1> USE LifeAssumption DEF Numbers
<1>1. CASE UNCHANGED lifeVars
  BY <1>1 DEF lifeVars, onVars, offVars, pollVars
<1>2. CASE UseAfterDestruction
  BY <1>2 DEF UseAfterDestruction, onVars, offVars, pollVars
<1>3. CASE CallOn
  BY <1>3, LifeAssumption DEF CallOn, offVars, pollVars
<1>4. CASE get_myid \/ SetWorkLoop
  BY <1>4 DEF get_myid, SetWorkLoop, OnGoto, offVars, pollVars
<1>5. CASE NewPoll
  BY <1>5 DEF NewPoll, OnGoto, offVars, pollVars
<1>6. CASE NewWorker
  BY <1>6 DEF NewWorker, OnGoto, offVars, pollVars
<1>7. ASSUME NEW k \in Pairs, Loop(k) PROVE Numbers'
  <2>1. CASE LoopTest(k)
    BY <2>1 DEF LoopTest, Poll, onVars, offVars
  <2>2. CASE getevent(k)
    <3>1. conn' = [conn EXCEPT ![k] = conn[k] + 1] \/ conn' = conn
      BY <2>2 DEF getevent
    <3>2. conn' \in [Pairs -> Nat]
      BY <3>1
    <3> QED BY <2>2, <3>2 DEF getevent, Poll, onVars, offVars
  <2> QED BY <1>7, <2>1, <2>2 DEF Loop
<1>8. ASSUME NEW k \in Pairs, Worker(k) PROVE Numbers'
  <2>1. Work
    BY <1>8 DEF Worker, WorkTest, get_task, RunTask, Doze, Wait
  <2> QED BY <2>1 DEF Work, onVars, offVars, pollVars
<1>9. CASE CallOff
  BY <1>9, LifeAssumption DEF CallOff, onVars, pollVars
<1>10. CASE finish_loop
  <2>1. CASE ClearWorkLoop
    BY <2>1 DEF ClearWorkLoop, Off, onVars, pollVars
  <2>2. ASSUME NEW p \in {"th", "th_worker"}, NEW from,
               NEW to \in {"join_worker", "delete"}, Join(p, from, to)
        PROVE  Numbers'
    <3>1. There(p) => Object(p) \in Objects
      BY LifeAssumption DEF There, Object, Objects, Pairs
    <3> QED BY <2>2, <3>1 DEF Join, Off, onVars, pollVars
  <2>3. ASSUME NEW p, NEW from, NEW to \in {"delete_worker", "exit"}, Delete(p, from, to)
        PROVE  Numbers'
    BY <2>3 DEF Delete, Off, onVars, pollVars
  <2> QED BY <1>10, <2>1, <2>2, <2>3 DEF finish_loop
<1>11. CASE exit
  BY <1>11 DEF exit, Off, onVars, pollVars
<1> QED
  BY <1>1, <1>2, <1>3, <1>4, <1>5, <1>6, <1>7, <1>8, <1>9, <1>10, <1>11, StepKinds
     DEF On

LEMMA PlacesStep == TypeOK /\ [Next]_vars => Places'
<1> SUFFICES ASSUME Numbers, Places, [Next]_vars PROVE Places'
  BY TypeParts
<1> USE LifeAssumption DEF Places
<1>1. CASE UNCHANGED lifeVars
  BY <1>1 DEF lifeVars, onVars, offVars, pollVars
<1>2. CASE UseAfterDestruction
  BY <1>2 DEF UseAfterDestruction, onVars, offVars, pollVars
<1>3. CASE CallOn
  BY <1>3, LifeAssumption DEF CallOn, offVars, pollVars
<1>4. CASE get_myid \/ SetWorkLoop
  BY <1>4 DEF get_myid, SetWorkLoop, OnGoto, offVars, pollVars
<1>5. CASE NewPoll
  BY <1>5 DEF NewPoll, OnGoto, offVars, pollVars
<1>6. CASE NewWorker
  BY <1>6 DEF NewWorker, OnGoto, offVars, pollVars
<1>7. ASSUME NEW k \in Pairs, Loop(k) PROVE Places'
  <2>1. CASE LoopTest(k)
    BY <2>1 DEF LoopTest, Poll, onVars, offVars
  <2>2. CASE getevent(k)
    BY <2>2 DEF getevent, Poll, onVars, offVars
  <2> QED BY <1>7, <2>1, <2>2 DEF Loop
<1>8. ASSUME NEW k \in Pairs, Worker(k) PROVE Places'
  <2>1. /\ wpc' \in [Pairs -> {"none", "loop", "get", "run", "doze", "wait", "ended"}]
        /\ empty_thread' \in BOOLEAN
    BY <1>8 DEF Worker, WorkTest, get_task, RunTask, Doze, Wait, WorkGoto
  <2>2. Work
    BY <1>8 DEF Worker, WorkTest, get_task, RunTask, Doze, Wait
  <2> QED BY <2>1, <2>2 DEF Work, onVars, offVars, pollVars
<1>9. CASE CallOff
  BY <1>9, LifeAssumption DEF CallOff, onVars, pollVars
<1>10. CASE finish_loop
  <2>1. CASE ClearWorkLoop
    BY <2>1 DEF ClearWorkLoop, Off, onVars, pollVars
  <2>2. ASSUME NEW p \in {"th", "th_worker"}, NEW from,
               NEW to \in {"join_worker", "delete"}, Join(p, from, to)
        PROVE  Places'
    BY <2>2 DEF Join, Off, onVars, pollVars
  <2>3. ASSUME NEW p, NEW from, NEW to \in {"delete_worker", "exit"}, Delete(p, from, to)
        PROVE  Places'
    BY <2>3 DEF Delete, Off, onVars, pollVars
  <2> QED BY <1>10, <2>1, <2>2, <2>3 DEF finish_loop
<1>11. CASE exit
  BY <1>11 DEF exit, Off, onVars, pollVars
<1> QED
  BY <1>1, <1>2, <1>3, <1>4, <1>5, <1>6, <1>7, <1>8, <1>9, <1>10, <1>11, StepKinds
     DEF On

LEMMA TypeStep == TypeOK /\ [Next]_vars => TypeOK'
<1>1. TypeOK' <=> Numbers' /\ Places' /\ (hung \subseteq Actors)'
  BY DEF TypeOK, Numbers, Places
<1> QED BY <1>1, NumbersStep, PlacesStep, HungStep, TypeParts

-----------------------------------------------------------------------------
(* How many objects are deleted *)

LEMMA CountStep == TypeOK /\ CountInv /\ [Next]_vars => CountInv'
<1> SUFFICES ASSUME TypeOK, CountInv, [Next]_vars PROVE CountInv'
  OBVIOUS
<1> USE LifeAssumption DEF CountInv, TypeOK
<1>0. ASSUME deleted' = deleted
      PROVE  Deleted("th")' = Deleted("th") /\ Deleted("th_worker")' = Deleted("th_worker")
  BY <1>0 DEF Deleted
<1>1. CASE UNCHANGED <<offs, off_pc, deleted>>
  BY <1>0, <1>1
<1>2. CASE CallOff
  BY <1>0, <1>2 DEF CallOff
<1>3. CASE ClearWorkLoop
  BY <1>0, <1>3 DEF ClearWorkLoop
<1>4. CASE exit
  BY <1>0, <1>4 DEF exit
<1>5. CASE Join("th", "join", "join_worker") \/ Join("th_worker", "join_worker", "delete")
  BY <1>0, <1>5 DEF Join
<1>6. ASSUME NEW p \in {"th", "th_worker"}, NEW from, NEW to, Delete(p, from, to),
             off_pc' # off_pc
      PROVE  /\ Cardinality(Deleted(p)') = Cardinality(Deleted(p)) + 1
             /\ \A q \in {"th", "th_worker"} \ {p} : Deleted(q)' = Deleted(q)
             /\ offs' = offs /\ off_pc = from /\ off_pc' = to
  <2>1. /\ deleted' = deleted \cup {Object(p)} /\ offs' = offs /\ off_pc = from /\ off_pc' = to
        /\ There(p)
    BY <1>6 DEF Delete
  <2>2. PICK k \in Pairs : Object(p) = <<p, k>> /\ <<p, k>> \notin deleted
    <3>1. CASE p = "th"
      <4>1. Object(p) = <<p, th>> /\ th # 0 /\ th \in Pairs
        BY <2>1, <3>1 DEF There, Object, Pairs
      <4> QED BY <2>1, <4>1 DEF There
    <3>2. CASE p = "th_worker"
      <4>1. Object(p) = <<p, th_worker>> /\ th_worker # 0 /\ th_worker \in Pairs
        BY <2>1, <3>2 DEF There, Object, Pairs
      <4> QED BY <2>1, <4>1 DEF There
    <3> QED BY <3>1, <3>2
  <2>3. Deleted(p)' = Deleted(p) \cup {k} /\ k \notin Deleted(p)
    BY <2>1, <2>2 DEF Deleted
  <2>4. \A q \in {"th", "th_worker"} \ {p} : Deleted(q)' = Deleted(q)
    BY <2>1, <2>2 DEF Deleted
  <2> QED BY <2>1, <2>3, <2>4, DeletedFinite, FS_AddElement
<1>7. CASE Delete("th", "delete", "delete_worker")
  <2>1. CASE off_pc' = off_pc
    BY <1>1, <1>7, <2>1 DEF Delete
  <2>2. CASE off_pc' # off_pc
    <3>1. /\ Cardinality(Deleted("th")') = Cardinality(Deleted("th")) + 1
          /\ Deleted("th_worker")' = Deleted("th_worker")
          /\ offs' = offs /\ off_pc = "delete" /\ off_pc' = "delete_worker"
      BY <1>6, <1>7, <2>2
    <3> QED BY <3>1
  <2> QED BY <2>1, <2>2
<1>8. CASE Delete("th_worker", "delete_worker", "exit")
  <2>1. CASE off_pc' = off_pc
    BY <1>1, <1>8, <2>1 DEF Delete
  <2>2. CASE off_pc' # off_pc
    <3>1. /\ Cardinality(Deleted("th_worker")') = Cardinality(Deleted("th_worker")) + 1
          /\ Deleted("th")' = Deleted("th")
          /\ offs' = offs /\ off_pc = "delete_worker" /\ off_pc' = "exit"
      BY <1>6, <1>8, <2>2
    <3> QED BY <3>1
  <2> QED BY <2>1, <2>2
<1>9. CASE UseAfterDestruction \/ CallOn \/ On
  BY <1>1, <1>9 DEF UseAfterDestruction, CallOn, On, get_myid, SetWorkLoop, NewPoll, NewWorker, offVars
<1>10. ASSUME NEW k \in Pairs, Loop(k) \/ Worker(k) PROVE CountInv'
  BY <1>1, <1>10 DEF Loop, LoopTest, getevent, Poll, Worker, WorkTest, get_task, RunTask, Doze, Wait, Work, offVars
<1> QED
  BY <1>1, <1>2, <1>3, <1>4, <1>5, <1>7, <1>8, <1>9, <1>10, StepKinds
     DEF finish_loop, lifeVars, offVars

-----------------------------------------------------------------------------
(* Paired use *)

Paired == paired => PairedInv /\ ObjectInv

LEMMA PairedOn ==
  ASSUME TypeOK, Paired, CallOn \/ On
  PROVE  Paired'
<1> SUFFICES ASSUME paired' PROVE PairedInv' /\ ObjectInv'
  BY DEF Paired
<1> USE LifeAssumption DEF TypeOK, Running, Pairs
<1>1. PairedInv /\ ObjectInv
  BY DEF Paired, CallOn, On, get_myid, SetWorkLoop, NewPoll, NewWorker
<1>2. CASE CallOn
  <2>1. /\ on_pc = "idle" /\ off_pc = "idle" /\ offs = ons /\ ons' = ons + 1 /\ on_pc' = "getid"
        /\ ~destroying /\ UNCHANGED <<offVars, th, th_worker, pollVars, wpc, crashed>>
    BY <1>2 DEF CallOn
  <2>2. \A k \in Pairs : ~Running(k)
    BY <1>1, <2>1 DEF PairedInv
  <2>3. ons + 1 \in Pairs /\ ppc[ons + 1] = "none" /\ wpc[ons + 1] = "none"
    <3>1. ons + 1 \in Pairs
      BY <1>2 DEF CallOn
    <3> QED BY <1>1, <3>1 DEF PairedInv
  <2>4. PairedInv'
    BY <1>1, <2>1, <2>2, <2>3 DEF PairedInv, offVars, pollVars
  <2>5. <<"th", ons + 1>> \notin joined /\ <<"th_worker", ons + 1>> \notin joined
    <3>1. \A o \in joined : o[2] <= ons
      BY <1>1 DEF ObjectInv
    <3>2. <<"th", ons + 1>>[2] = ons + 1 /\ <<"th_worker", ons + 1>>[2] = ons + 1
      OBVIOUS
    <3>3. ~(ons + 1 <= ons)
      OBVIOUS
    <3> QED BY <3>1, <3>2, <3>3
  <2>6. \A o \in joined : o[2] <= ons + 1
    BY <1>1 DEF ObjectInv, Objects
  <2>7. ObjectInv'
    BY <1>1, <2>1, <2>5, <2>6 DEF ObjectInv, offVars
  <2> QED BY <2>4, <2>7
<1>3. CASE get_myid \/ SetWorkLoop
  <2>1. /\ off_pc = "idle" /\ ons = offs + 1
        /\ on_pc \in {"getid", "work_loop"} /\ on_pc' \in {"work_loop", "th"}
        /\ UNCHANGED <<ons, offVars, th, th_worker, ppc, wpc, crashed>>
    BY <1>1, <1>3 DEF PairedInv, get_myid, SetWorkLoop, OnGoto, pollVars
  <2>2. PairedInv'
    BY <1>1, <2>1 DEF PairedInv, offVars
  <2>3. ObjectInv'
    BY <1>1, <2>1 DEF ObjectInv, offVars
  <2> QED BY <2>2, <2>3
<1>4. CASE NewPoll
  <2>1. /\ off_pc = "idle" /\ ons = offs + 1 /\ ons \in Pairs
        /\ on_pc = "th" /\ on_pc' = "th_worker" /\ th' = ons
        /\ ppc' = [ppc EXCEPT ![ons] = "loop"]
        /\ UNCHANGED <<ons, offVars, th_worker, wpc, crashed>>
    BY <1>1, <1>4 DEF PairedInv, NewPoll, OnGoto
  <2>2. ppc'[ons] = "loop" /\ \A k \in Pairs : k # ons => ppc'[k] = ppc[k]
    BY <2>1
  <2>3. PairedInv'
    BY <1>1, <2>1, <2>2 DEF PairedInv, offVars
  <2>4. ObjectInv'
    BY <1>1, <2>1 DEF ObjectInv, offVars
  <2> QED BY <2>3, <2>4
<1>5. CASE NewWorker
  <2>1. /\ off_pc = "idle" /\ ons = offs + 1 /\ ons \in Pairs
        /\ on_pc = "th_worker" /\ on_pc' = "idle" /\ th_worker' = ons
        /\ wpc' = [wpc EXCEPT ![ons] = "loop"]
        /\ UNCHANGED <<ons, offVars, th, ppc, crashed>>
    BY <1>1, <1>5 DEF PairedInv, NewWorker, OnGoto, pollVars
  <2>2. wpc'[ons] = "loop" /\ \A k \in Pairs : k # ons => wpc'[k] = wpc[k]
    BY <2>1
  <2>3. PairedInv'
    BY <1>1, <2>1, <2>2 DEF PairedInv, offVars
  <2>4. ObjectInv'
    BY <1>1, <2>1 DEF ObjectInv, offVars
  <2> QED BY <2>3, <2>4
<1> QED BY <1>2, <1>3, <1>4, <1>5 DEF On

LEMMA PairedThreads ==
  ASSUME TypeOK, Paired, NEW k \in Pairs, Loop(k) \/ Worker(k)
  PROVE  Paired'
<1> SUFFICES ASSUME paired' PROVE PairedInv' /\ ObjectInv'
  BY DEF Paired
<1>1. UNCHANGED <<onVars, offVars, th, th_worker, crashed, paired>>
  BY DEF Loop, LoopTest, getevent, Poll, Worker, WorkTest, get_task, RunTask, Doze, Wait, Work
<1>2. PairedInv /\ ObjectInv
  BY <1>1 DEF Paired
<1>3. ObjectInv'
  BY <1>1, <1>2 DEF ObjectInv, onVars, offVars
<1>4. PairedInv'
  <2>1. CASE Loop(k)
    <3>1. /\ wpc' = wpc /\ ppc[k] \notin {"none", "ended"}
          /\ \A j \in Pairs : j # k => ppc'[j] = ppc[j]
      BY <2>1 DEF Loop, LoopTest, getevent, Poll, TypeOK
    <3> QED BY <1>1, <1>2, <3>1 DEF PairedInv, Running, onVars, offVars, TypeOK, Pairs
  <2>2. CASE Worker(k)
    <3>1. /\ ppc' = ppc /\ wpc[k] \notin {"none", "ended"}
          /\ \A j \in Pairs : j # k => wpc'[j] = wpc[j]
      BY <2>2 DEF Worker, WorkTest, get_task, RunTask, Doze, Wait, Work, WorkGoto, pollVars, TypeOK
    <3> QED BY <1>1, <1>2, <3>1 DEF PairedInv, Running, onVars, offVars, TypeOK, Pairs
  <2> QED BY <2>1, <2>2
<1> QED BY <1>3, <1>4

LEMMA PairedOff ==
  ASSUME TypeOK, Paired, CallOff \/ finish_loop \/ exit
  PROVE  Paired'
<1> SUFFICES ASSUME paired' PROVE PairedInv' /\ ObjectInv'
  BY DEF Paired
<1> USE LifeAssumption DEF TypeOK, Running, Pairs
<1>1. PairedInv /\ ObjectInv /\ UNCHANGED <<onVars, th, th_worker, pollVars, wpc>>
  BY DEF Paired, CallOff, finish_loop, ClearWorkLoop, Join, Delete, exit, Off
<1>2. CASE CallOff
  <2>1. on_pc = "idle" /\ ons = offs + 1 /\ off_pc = "idle"
    BY <1>2 DEF CallOff
  <2>2. PairedInv'
    BY <1>1, <1>2, <2>1 DEF PairedInv, CallOff, onVars, pollVars
  <2>3. ObjectInv'
    BY <1>1, <1>2, <2>1 DEF ObjectInv, CallOff, onVars
  <2> QED BY <2>2, <2>3
<1>3. CASE ClearWorkLoop
  <2>1. PairedInv'
    BY <1>1, <1>3 DEF PairedInv, ClearWorkLoop, onVars, pollVars
  <2>2. ObjectInv'
    BY <1>1, <1>3 DEF ObjectInv, ClearWorkLoop, onVars
  <2> QED BY <2>1, <2>2
<1>4. off_pc # "idle" => /\ ons = offs /\ on_pc = "idle" /\ th = ons /\ th_worker = ons
                         /\ Object("th") = <<"th", ons>>
                         /\ Object("th_worker") = <<"th_worker", ons>>
                         /\ There("th") <=> <<"th", ons>> \notin deleted
                         /\ There("th_worker") <=> <<"th_worker", ons>> \notin deleted
                         /\ Ended("th") <=> ppc[ons] = "ended"
                         /\ Ended("th_worker") <=> wpc[ons] = "ended"
  BY <1>1 DEF PairedInv, Object, There, Ended
<1>5. off_pc # "idle" => ons # 0 /\ ons \in Pairs
  BY <1>1, LifeAssumption DEF PairedInv
<1>6. CASE Join("th", "join", "join_worker")
  <2>1. <<"th", ons>> \notin joined /\ ons # 0 /\ off_pc = "join"
    BY <1>1, <1>5, <1>6 DEF Join, ObjectInv
  <2>2. /\ off_pc' = "join_worker" /\ joined' = joined \cup {<<"th", ons>>}
        /\ ppc[ons] = "ended" /\ UNCHANGED <<offs, deleted, destroying, crashed>>
    BY <1>4, <1>6, <2>1 DEF Join
  <2>3. PairedInv'
    BY <1>1, <1>4, <2>1, <2>2 DEF PairedInv, onVars, pollVars
  <2>4. ObjectInv'
    BY <1>1, <1>4, <2>1, <2>2 DEF ObjectInv, onVars
  <2> QED BY <2>3, <2>4
<1>7. CASE Join("th_worker", "join_worker", "delete")
  <2>1. <<"th_worker", ons>> \notin joined /\ ons # 0 /\ off_pc = "join_worker"
    BY <1>1, <1>5, <1>7 DEF Join, ObjectInv
  <2>2. /\ off_pc' = "delete" /\ joined' = joined \cup {<<"th_worker", ons>>}
        /\ wpc[ons] = "ended" /\ UNCHANGED <<offs, deleted, destroying, crashed>>
    BY <1>4, <1>7, <2>1 DEF Join
  <2>3. PairedInv'
    BY <1>1, <1>4, <2>1, <2>2 DEF PairedInv, onVars, pollVars
  <2>4. <<"th", ons>> \in joined /\ <<"th", ons>> \notin deleted
    BY <1>1, <2>1 DEF ObjectInv
  <2>5. ObjectInv'
    BY <1>1, <1>4, <2>1, <2>2, <2>4 DEF ObjectInv, onVars
  <2> QED BY <2>3, <2>5
<1>8. CASE Delete("th", "delete", "delete_worker")
  <2>1. <<"th", ons>> \in joined \ deleted /\ ons # 0 /\ off_pc = "delete"
    BY <1>1, <1>5, <1>8 DEF Delete, ObjectInv
  <2>2. /\ off_pc' = "delete_worker" /\ deleted' = deleted \cup {<<"th", ons>>}
        /\ UNCHANGED <<offs, joined, destroying, crashed>>
    BY <1>4, <1>8, <2>1 DEF Delete
  <2>3. PairedInv'
    BY <1>1, <1>4, <2>1, <2>2 DEF PairedInv, onVars, pollVars
  <2>4. ObjectInv'
    BY <1>1, <1>4, <2>1, <2>2 DEF ObjectInv, onVars
  <2> QED BY <2>3, <2>4
<1>9. CASE Delete("th_worker", "delete_worker", "exit")
  <2>1. <<"th_worker", ons>> \in joined \ deleted /\ ons # 0 /\ off_pc = "delete_worker"
    BY <1>1, <1>5, <1>9 DEF Delete, ObjectInv
  <2>2. /\ off_pc' = "exit" /\ UNCHANGED <<offs, joined, destroying, crashed>>
    BY <1>4, <1>9, <2>1 DEF Delete
  <2>3. PairedInv'
    BY <1>1, <1>4, <2>1, <2>2 DEF PairedInv, onVars, pollVars
  <2>4. ObjectInv'
    BY <1>1, <1>4, <2>1, <2>2 DEF ObjectInv, onVars
  <2> QED BY <2>3, <2>4
<1>10. CASE exit
  <2>1. PairedInv'
    BY <1>1, <1>4, <1>5, <1>10 DEF PairedInv, exit, onVars, pollVars
  <2>2. ObjectInv'
    BY <1>1, <1>4, <1>10 DEF ObjectInv, exit, onVars
  <2> QED BY <2>1, <2>2
<1> QED BY <1>2, <1>3, <1>6, <1>7, <1>8, <1>9, <1>10 DEF finish_loop

LEMMA PairedDestroyed ==
  ASSUME TypeOK, Paired, UseAfterDestruction
  PROVE  Paired'
<1> SUFFICES ASSUME paired PROVE FALSE
  BY DEF Paired, UseAfterDestruction
<1>1. PairedInv
  BY DEF Paired
<1>2. destroying /\ off_pc = "idle" /\ (on_pc # "idle" \/ \E k \in Pairs : Running(k))
  BY DEF UseAfterDestruction, Destroyed
<1>3. ons = offs /\ on_pc = "idle"
  BY <1>1, <1>2 DEF PairedInv
<1>4. ASSUME NEW k \in Pairs, Running(k) PROVE FALSE
  <2>1. k = ons
    BY <1>1, <1>4 DEF PairedInv
  <2> QED BY <1>1, <1>2, <1>3, <1>4, <2>1, LifeAssumption DEF PairedInv, Running, Pairs, TypeOK
<1> QED BY <1>2, <1>3, <1>4

\* The invariant of the life cycle holds in every run.
THEOREM LifeInvariant == Spec => []IInv
<1>1. IInv <=> TypeOK /\ CountInv /\ Paired
  BY DEF IInv, Paired
<1>2. ASSUME TypeOK, Paired, UNCHANGED lifeVars PROVE Paired'
  BY <1>2 DEF lifeVars, onVars, offVars, pollVars, Paired, PairedInv, ObjectInv, Running
<1>3. TypeOK /\ Paired /\ [Next]_vars => Paired'
  BY <1>2, PairedOn, PairedThreads, PairedOff, PairedDestroyed, StepKinds
<1>4. IInv /\ [Next]_vars => IInv'
  <2> SUFFICES ASSUME IInv, [Next]_vars PROVE IInv'
    OBVIOUS
  <2>1. TypeOK' /\ CountInv' /\ Paired'
    BY <1>1, <1>3, TypeStep, CountStep
  <2> QED BY <2>1 DEF IInv, Paired
<1> QED BY <1>4, InitInv, PTL DEF Spec

-----------------------------------------------------------------------------

\* Switching on and off in turn does nothing undefined.
THEOREM PairedUseIsSafe == Spec => []SafeIfPaired
<1>1. IInv => SafeIfPaired
  BY DEF IInv, PairedInv, SafeIfPaired
<1> QED BY <1>1, LifeInvariant, PTL

\* Then off() leaves no thread behind, and no thread outlives the manager.
THEOREM PairedOffStops == Spec => []OffStopsThreads
<1>1. IInv => OffStopsThreads
  <2> SUFFICES ASSUME IInv, paired, off_pc = "exit" \/ Destroyed
               PROVE  on_pc = "idle" /\ \A k \in Pairs : ~Running(k)
    BY DEF OffStopsThreads
  <2>1. PairedInv
    BY DEF IInv
  <2>2. ons = offs /\ on_pc = "idle"
    BY <2>1 DEF PairedInv, Destroyed
  <2>3. ASSUME NEW k \in Pairs, Running(k) PROVE FALSE
    <3>1. k = ons
      BY <2>1, <2>3 DEF PairedInv
    <3> QED BY <2>1, <2>2, <2>3, <3>1, LifeAssumption DEF PairedInv, Running, Pairs, IInv, TypeOK, Destroyed
  <2> QED BY <2>2, <2>3
<1> QED BY <1>1, LifeInvariant, PTL

\* However they are called, every off() that ends has ended a pair of threads.
THEOREM OffsEndPairs == Spec => []EachOffEndsAPair
<1>1. IInv => EachOffEndsAPair
  BY DEF IInv, CountInv, EachOffEndsAPair
<1> QED BY <1>1, LifeInvariant, PTL

\* A worker that sleeps when the polls have ended keeps off() for ever.
THEOREM LostStays == Spec => LostIsForever
<1>1. ASSUME IInv, Next, Lost, ons' = ons PROVE Lost'
  <2> USE DEF Lost
  <2>1. ~CallOn /\ ~On /\ ~CallOff /\ ~exit
    BY <1>1, LifeAssumption
       DEF CallOn, On, get_myid, SetWorkLoop, NewPoll, NewWorker, OnGoto, CallOff, exit, IInv, TypeOK
  <2>2. CASE UseAfterDestruction
    BY <1>1, <2>2 DEF UseAfterDestruction, onVars, offVars, pollVars
  <2>3. ASSUME NEW k \in Pairs, Loop(k) PROVE FALSE
    BY <1>1, <2>3 DEF Loop, LoopTest, getevent
  <2>4. ASSUME NEW k \in Pairs, Worker(k) PROVE Lost'
    <3>1. k # th_worker /\ empty_thread' = FALSE /\ Work
      BY <1>1, <2>4 DEF Worker, WorkTest, get_task, RunTask, Doze, Wait, WorkGoto, IInv, TypeOK
    <3>2. wpc'[th_worker] = wpc[th_worker]
      <4>1. PICK to : wpc' = [wpc EXCEPT ![k] = to]
        BY <2>4 DEF Worker, WorkTest, get_task, RunTask, Doze, Wait, WorkGoto
      <4>2. th_worker \in Pairs /\ wpc \in [Pairs -> {"none", "loop", "get", "run", "doze", "wait", "ended"}]
        BY <1>1, LifeAssumption DEF IInv, TypeOK, Pairs
      <4> QED BY <3>1, <4>1, <4>2
    <3> QED BY <1>1, <3>1, <3>2 DEF Work, onVars, offVars, pollVars
  <2>5. CASE finish_loop
    <3>1. ~Ended("th_worker")
      BY <1>1 DEF Ended, Object
    <3>2. off_pc' \in {"join", "join_worker"} /\ Off
      BY <1>1, <2>5, <3>1 DEF finish_loop, ClearWorkLoop, Join, Delete
    <3> QED BY <1>1, <3>2 DEF Off, onVars, pollVars
  <2>6. CASE UNCHANGED lifeVars
    BY <1>1, <2>6 DEF lifeVars, onVars, offVars, pollVars
  <2> QED BY <1>1, <2>1, <2>2, <2>3, <2>4, <2>5, <2>6, StepKinds
<1>2. IInv /\ [Next]_vars => [Lost /\ ons' = ons => Lost']_vars
  BY <1>1
<1> QED BY <1>2, LifeInvariant, PTL DEF Spec, LostIsForever
=============================================================================
