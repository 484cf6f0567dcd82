------------------------ MODULE CrowConnectionProofs ------------------------
(***************************************************************************)
(* Proofs about the deadlines of Crow's connections, for any connections,  *)
(* timeout and bounds.                                                     *)
(***************************************************************************)
EXTENDS CrowConnection, TLAPS

\* What the properties of the timer's table say, and nothing of connections.
TimerInv ==
  /\ now \in Nat /\ highest_id \in Nat
  /\ DOMAIN tasks \subseteq Nat \ {0}
  /\ \A i \in DOMAIN tasks : tasks[i] \in [conn : Conns, due : Nat]
  /\ task_id \in [Conns -> Nat] /\ since \in [Conns -> Nat]
  /\ OneDeadlineEach
  /\ DueRight

\* schedule() finds its identifier free, since no task has a higher one than
\* the last issued: the connection has exactly the new deadline.
LEMMA StartDeadline ==
  ASSUME TimerInv, NEW c \in Conns, start_deadline(c)
  PROVE  /\ TimerInv'
         /\ now' = now
         /\ task_id' = [task_id EXCEPT ![c] = highest_id + 1]
         /\ since' = [since EXCEPT ![c] = now]
         /\ DOMAIN tasks' = (DOMAIN tasks \ {task_id[c]}) \cup {highest_id + 1}
         /\ tasks'[highest_id + 1] = [conn |-> c, due |-> now + Timeout]
         /\ \A i \in DOMAIN tasks \ {task_id[c]} : i # highest_id + 1 /\ tasks'[i] = tasks[i]
<1> DEFINE new == highest_id + 1
           task == [conn |-> c, due |-> now + Timeout]
           left == DOMAIN tasks \ {task_id[c]}
<1>1. /\ highest_id' = new /\ now' = now
      /\ task_id' = [task_id EXCEPT ![c] = new]
      /\ since' = [since EXCEPT ![c] = now]
  BY DEF start_deadline
<1>2. \A i \in DOMAIN tasks : i \in Nat /\ i <= highest_id /\ i # new
  BY DEF TimerInv, OneDeadlineEach
<1>3. tasks' = [j \in left \cup {new} |-> IF j \in left THEN tasks[j] ELSE task]
  BY <1>1 DEF start_deadline, Insert, Without
<1>4. /\ DOMAIN tasks' = left \cup {new}
      /\ tasks'[new] = task
      /\ \A i \in left : i # new /\ tasks'[i] = tasks[i]
  BY <1>2, <1>3
<1>5. \A i \in left : tasks[i].conn # c
  BY DEF TimerInv, OneDeadlineEach
<1>6. /\ now' \in Nat /\ highest_id' \in Nat
      /\ task_id' \in [Conns -> Nat] /\ since' \in [Conns -> Nat]
  BY <1>1 DEF TimerInv
<1>7. task \in [conn : Conns, due : Nat] /\ new \in Nat \ {0}
  BY CrowAssumption DEF TimerInv
<1>8. /\ DOMAIN tasks' \subseteq Nat \ {0}
      /\ \A i \in DOMAIN tasks' : tasks'[i] \in [conn : Conns, due : Nat]
  BY <1>4, <1>7 DEF TimerInv
<1>9. OneDeadlineEach'
  <2> SUFFICES ASSUME NEW i \in DOMAIN tasks'
               PROVE  i <= highest_id' /\ task_id'[tasks'[i].conn] = i
    BY DEF OneDeadlineEach
  <2>1. CASE i = new
    BY <1>1, <1>4, <1>7, <2>1 DEF TimerInv
  <2>2. CASE i \in left
    BY <1>1, <1>2, <1>4, <1>5, <2>2 DEF TimerInv, OneDeadlineEach
  <2> QED BY <1>4, <2>1, <2>2
<1>10. DueRight'
  <2> SUFFICES ASSUME NEW i \in DOMAIN tasks'
               PROVE  tasks'[i].due = since'[tasks'[i].conn] + Timeout /\ tasks'[i].due >= now'
    BY DEF DueRight
  <2>1. CASE i = new
    BY <1>1, <1>4, <2>1, CrowAssumption DEF TimerInv
  <2>2. CASE i \in left
    BY <1>1, <1>4, <1>5, <2>2 DEF TimerInv, DueRight
  <2> QED BY <1>4, <2>1, <2>2
<1> QED BY <1>1, <1>4, <1>6, <1>8, <1>9, <1>10 DEF TimerInv

\* Taking tasks away disturbs none of this.
LEMMA Removed ==
  ASSUME TimerInv, NEW ids, tasks' = Without(ids),
         UNCHANGED <<now, highest_id, task_id, since>>
  PROVE  /\ TimerInv'
         /\ DOMAIN tasks' = DOMAIN tasks \ ids
         /\ \A i \in DOMAIN tasks' : tasks'[i] = tasks[i]
BY DEF TimerInv, OneDeadlineEach, DueRight, Without

LEMMA TickStep ==
  ASSUME TimerInv, Tick
  PROVE  /\ TimerInv'
         /\ DOMAIN tasks' = DOMAIN tasks \ Due(now + 1)
         /\ \A i \in DOMAIN tasks' : tasks'[i] = tasks[i]
<1>1. /\ now' = now + 1 /\ tasks' = Without(Due(now + 1))
      /\ UNCHANGED <<task_id, since>>
  BY DEF Tick, process_tasks
<1>2. /\ DOMAIN tasks' = DOMAIN tasks \ Due(now + 1)
      /\ \A i \in DOMAIN tasks' : tasks'[i] = tasks[i]
  BY <1>1 DEF Without
<1>3. highest_id' = IF DOMAIN tasks' = {} THEN 0 ELSE highest_id
  BY <1>1, <1>2 DEF Tick, process_tasks
<1>4. OneDeadlineEach'
  BY <1>1, <1>2, <1>3 DEF TimerInv, OneDeadlineEach
<1>5. DueRight'
  BY <1>1, <1>2 DEF TimerInv, DueRight, Due
<1> QED BY <1>1, <1>2, <1>3, <1>4, <1>5 DEF TimerInv

-----------------------------------------------------------------------------

Rest ==
  /\ open \in [Conns -> BOOLEAN]
  /\ reading \in [Conns -> AllSends \cup {"new", "start", "pending", "no", "gone", "aborted"}]
  /\ msg \in [Conns -> {"none", "head", "done"}]
  /\ writes \in [Conns -> Nat]
  /\ closing \in [Conns -> BOOLEAN]
  /\ owing \subseteq Conns /\ expired \subseteq Conns
  /\ expects \subseteq Conns /\ overrun \subseteq Conns

LEMMA Parts == IInv <=> TimerInv /\ Rest /\ ActiveInv
BY DEF IInv, TypeOK, TimerInv, Rest

LEMMA InitInv == Init => IInv
BY CrowAssumption
   DEF Init, IInv, TypeOK, OneDeadlineEach, DueRight, ActiveInv, Active, AllSends

LEMMA TimerStep == TimerInv /\ [Next]_vars => TimerInv'
<1> SUFFICES ASSUME TimerInv, [Next]_vars PROVE TimerInv'
  OBVIOUS
<1>1. CASE UNCHANGED timerVars
  BY <1>1 DEF timerVars, TimerInv, OneDeadlineEach, DueRight
<1>2. CASE Tick
  BY <1>2, TickStep
<1>3. ASSUME NEW c \in Conns, start_deadline(c) PROVE TimerInv'
  BY <1>3, StartDeadline
<1>4. ASSUME NEW c \in Conns, cancel_deadline_timer(c) PROVE TimerInv'
  BY <1>4, Removed DEF cancel_deadline_timer
<1> QED
  BY <1>1, <1>2, <1>3, <1>4
     DEF Next, vars, Accept, Arrive, Start, ReadEnds, CutShort, ReadMore, Handle, Written

LEMMA RestStep == TimerInv /\ Rest /\ [Next]_vars => Rest'
<1> SUFFICES ASSUME Rest, [Next]_vars PROVE Rest'
  OBVIOUS
<1> USE DEF Rest
<1>1. CASE UNCHANGED vars
  BY <1>1 DEF vars, timerVars
<1>2. CASE Tick
  BY <1>2 DEF Tick
<1>3. ASSUME NEW c \in Conns, Accept(c) \/ Start(c) \/ ReadEnds(c)
      PROVE  Rest'
  <2>1. CASE Accept(c)
    BY <2>1 DEF Accept
  <2>2. CASE Start(c)
    BY <2>2 DEF Start
  <2>3. CASE ReadEnds(c)
    BY <2>3 DEF ReadEnds
  <2> QED BY <1>3, <2>1, <2>2, <2>3
<1>7. ASSUME NEW c \in Conns, Written(c) PROVE Rest'
  <2>1. writes' \in [Conns -> Nat]
    <3>1. writes[c] - 1 \in Nat /\ writes' = [writes EXCEPT ![c] = writes[c] - 1]
      BY <1>7 DEF Written
    <3> QED BY <3>1
  <2>2. open' \in [Conns -> BOOLEAN]
    BY <1>7 DEF Written
  <2>3. msg' \in [Conns -> {"none", "head", "done"}]
    BY <1>7 DEF Written
  <2> QED BY <1>7, <2>1, <2>2, <2>3 DEF Written
<1>4. ASSUME NEW c \in Conns, Arrive(c) PROVE Rest'
  <2>1. reading' \in [Conns -> AllSends \cup {"new", "start", "pending", "no", "gone", "aborted"}]
    BY <1>4, CrowAssumption DEF Arrive
  <2> QED BY <1>4, <2>1 DEF Arrive
<1>5. ASSUME NEW c \in Conns, ReadMore(c) PROVE Rest'
  <2>1. /\ writes' = writes \/ writes' = [writes EXCEPT ![c] = @ + 1]
        /\ expects' \subseteq Conns
    BY <1>5 DEF ReadMore
  <2> QED BY <1>5, <2>1 DEF ReadMore
<1>6. ASSUME NEW c \in Conns, Handle(c) PROVE Rest'
  <2>1. PICK n \in 1 .. MaxAnswers :
             /\ writes' = [writes EXCEPT ![c] = @ + n]
             /\ overrun' = IF n > 1 THEN overrun \cup {c} ELSE overrun
    BY <1>6 DEF Handle
  <2>2. n \in Nat
    BY <2>1, CrowAssumption
  <2>3. writes' \in [Conns -> Nat] /\ overrun' \subseteq Conns
    BY <2>1, <2>2
  <2> QED BY <1>6, <2>3 DEF Handle
<1>8. ASSUME NEW c \in Conns, CutShort(c) PROVE Rest'
  BY <1>8 DEF CutShort
<1> QED BY <1>1, <1>2, <1>3, <1>4, <1>5, <1>6, <1>7, <1>8 DEF Next

\* A connection that starts its deadline owns its task, and takes none away
\* from an active one.
LEMMA StartOwns ==
  ASSUME TimerInv, Rest, ActiveInv, NEW c \in Conns, start_deadline(c), expired = {},
         task_id[c] = 0 \/ OwnsTask(c)
  PROVE  /\ OwnsTask(c)'
         /\ \A d \in Conns : d # c /\ OwnsTask(d) => OwnsTask(d)'
<1>1. /\ task_id' = [task_id EXCEPT ![c] = highest_id + 1]
      /\ DOMAIN tasks' = (DOMAIN tasks \ {task_id[c]}) \cup {highest_id + 1}
      /\ tasks'[highest_id + 1] = [conn |-> c, due |-> now + Timeout]
      /\ \A i \in DOMAIN tasks \ {task_id[c]} : i # highest_id + 1 /\ tasks'[i] = tasks[i]
  BY StartDeadline
<1>2. OwnsTask(c)'
  BY <1>1 DEF OwnsTask, TimerInv
<1>3. ASSUME NEW d \in Conns, d # c, OwnsTask(d) PROVE OwnsTask(d)'
  <2>1. task_id[d] \in DOMAIN tasks \ {task_id[c]}
    BY <1>3 DEF OwnsTask, TimerInv
  <2> QED BY <1>1, <1>3, <2>1 DEF OwnsTask, TimerInv
<1> QED BY <1>2, <1>3

\* An active connection that cancels takes its own task.
LEMMA CancelOwn ==
  ASSUME TimerInv, NEW c \in Conns, cancel_deadline_timer(c), OwnsTask(c),
         NEW d \in Conns, d # c, OwnsTask(d)
  PROVE  OwnsTask(d)'
<1>1. task_id[d] # task_id[c]
  BY DEF OwnsTask
<1> QED BY <1>1 DEF OwnsTask, cancel_deadline_timer, Without

LEMMA ActiveStep == TimerInv /\ Rest /\ ActiveInv /\ [Next]_vars => ActiveInv'
<1> SUFFICES ASSUME TimerInv, Rest, ActiveInv, [Next]_vars PROVE ActiveInv'
  OBVIOUS
<1> USE DEF ActiveInv, Rest, AllSends
<1>1. CASE UNCHANGED vars
  BY <1>1 DEF vars, timerVars, Active, OwnsTask
<1>2. CASE Tick
  <2>1. /\ \A c \in Conns : reading'[c] \in {"new", "start"} => task_id'[c] = 0
        /\ \A c \in Conns : closing'[c] => reading'[c] = "no"
    BY <1>2 DEF Tick
  <2>2. ASSUME expired' = {} PROVE UNCHANGED <<expired, reading, open, task_id>>
    BY <1>2, <2>2 DEF Tick
  <2>3. ASSUME expired' = {}, NEW c \in Conns, Active(c)
        PROVE  OwnsTask(c)'
    <3>1. open[c] /\ OwnsTask(c)
      BY <2>2, <2>3
    <3>2. \A i \in Due(now + 1) : tasks[i].conn # c
      BY <1>2, <2>3, <3>1 DEF Tick
    <3>3. task_id[c] \in DOMAIN tasks'
      BY <1>2, <3>1, <3>2, TickStep DEF OwnsTask
    <3> QED BY <1>2, <2>2, <2>3, <3>1, <3>3, TickStep DEF OwnsTask
  <2> QED BY <2>1, <2>2, <2>3 DEF Active
<1>3. ASSUME NEW c \in Conns, Accept(c) \/ Arrive(c)
      PROVE  ActiveInv'
  BY <1>3, CrowAssumption DEF Accept, Arrive, timerVars, Active, OwnsTask
<1>4. ASSUME NEW c \in Conns, Written(c)
      PROVE  ActiveInv'
  BY <1>4 DEF Written, timerVars, Active, OwnsTask
<1>5. ASSUME NEW c \in Conns, Start(c)
      PROVE  ActiveInv'
  <2>1. task_id[c] = 0 /\ start_deadline(c) /\ reading[c] = "start"
    BY <1>5 DEF Start
  <2>2. reading' = [reading EXCEPT ![c] = "pending"] /\ UNCHANGED <<open, closing, expired>>
    BY <1>5 DEF Start
  <2>3. task_id' = [task_id EXCEPT ![c] = highest_id + 1] /\ task_id \in [Conns -> Nat]
    BY <2>1 DEF start_deadline, TimerInv
  <2>4. \A d \in Conns : d # c => reading'[d] = reading[d] /\ task_id'[d] = task_id[d]
    BY <2>2, <2>3
  <2>5. reading'[c] = "pending"
    BY <2>2
  <2>6. ASSUME expired = {} PROVE \A d \in Conns : Active(d)' => OwnsTask(d)'
    BY <2>1, <2>4, <2>6, StartOwns DEF Active
  <2> QED BY <2>1, <2>2, <2>4, <2>5, <2>6 DEF Active
<1>6. ASSUME NEW c \in Conns, HasData(c), open[c], start_deadline(c),
             reading' = [reading EXCEPT ![c] = "pending"],
             UNCHANGED <<open, expired>>,
             closing' = closing \/ closing' = [closing EXCEPT ![c] = FALSE]
      PROVE  ActiveInv'
  <2>1. task_id' = [task_id EXCEPT ![c] = highest_id + 1] /\ task_id \in [Conns -> Nat]
    BY <1>6 DEF start_deadline, TimerInv
  <2>2. \A d \in Conns : d # c => reading'[d] = reading[d] /\ task_id'[d] = task_id[d]
    BY <1>6, <2>1
  <2>3. reading'[c] = "pending" /\ Active(c) /\ ~closing[c]
    BY <1>6 DEF HasData, Active
  <2>4. ASSUME expired = {} PROVE \A d \in Conns : Active(d)' => OwnsTask(d)'
    BY <1>6, <2>2, <2>3, <2>4, StartOwns DEF Active
  <2>5. \A d \in Conns : closing'[d] => d # c /\ closing[d]
    BY <1>6, <2>3
  <2> QED BY <1>6, <2>2, <2>3, <2>4, <2>5 DEF Active
<1>7. ASSUME NEW c \in Conns, Active(c), cancel_deadline_timer(c),
             reading' = [reading EXCEPT ![c] = "no"],
             \A d \in Conns : d # c => open'[d] = open[d] /\ closing'[d] = closing[d],
             expired' = expired
      PROVE  ActiveInv'
  <2>1. \A d \in Conns : d # c => reading'[d] = reading[d] /\ task_id'[d] = task_id[d]
    BY <1>7 DEF cancel_deadline_timer
  <2>2. reading'[c] = "no"
    BY <1>7
  <2>3. ASSUME expired = {} PROVE \A d \in Conns : Active(d)' => OwnsTask(d)'
    BY <1>7, <2>1, <2>2, <2>3, CancelOwn DEF Active
  <2> QED BY <1>7, <2>1, <2>2, <2>3 DEF Active
<1>8. ASSUME NEW c \in Conns, ReadEnds(c) PROVE ActiveInv'
  BY <1>7, <1>8 DEF ReadEnds, HasData, Active
<1>11. ASSUME NEW c \in Conns, CutShort(c) PROVE ActiveInv'
  BY <1>7, <1>11 DEF CutShort, CutsOff, HasData, Active
<1>9. ASSUME NEW c \in Conns, ReadMore(c) PROVE ActiveInv'
  BY <1>6, <1>9 DEF ReadMore
<1>10. ASSUME NEW c \in Conns, Handle(c) PROVE ActiveInv'
  <2>1. CASE reading[c] = "last"
    BY <1>7, <1>10, <2>1 DEF Handle, HasData, Active
  <2>2. CASE reading[c] # "last"
    BY <1>6, <1>10, <2>2 DEF Handle
  <2> QED BY <2>1, <2>2
<1> QED
  BY <1>1, <1>2, <1>3, <1>4, <1>5, <1>8, <1>9, <1>10, <1>11 DEF Next

\* The invariant of timer and connections holds throughout every run.
THEOREM CrowConnectionInv == Spec => []IInv
<1>1. IInv /\ [Next]_vars => IInv'
  <2> SUFFICES ASSUME IInv, [Next]_vars PROVE IInv'
    OBVIOUS
  <2>1. TimerInv' /\ Rest' /\ ActiveInv'
    BY Parts, TimerStep, RestStep, ActiveStep
  <2> QED BY <2>1 DEF IInv, TypeOK, TimerInv, Rest
<1> QED BY <1>1, InitInv, PTL DEF Spec

-----------------------------------------------------------------------------

\* Each task in the timer is the latest of its connection.
THEOREM DeadlinesAreOwn == Spec => []OneDeadlineEach
<1>1. IInv => OneDeadlineEach
  BY DEF IInv
<1> QED BY <1>1, CrowConnectionInv, PTL

\* Nobody waits without a deadline before the first timeout.
THEOREM DeadlinesBeforeTimeout == Spec => []SafeUntilFirstTimeout
<1>1. IInv => SafeUntilFirstTimeout
  BY DEF IInv, ActiveInv, SafeUntilFirstTimeout, Waiting, Active, OwnsTask, HasDeadline
<1> QED BY <1>1, CrowConnectionInv, PTL

\* A connection heard of within the timeout is not closed by the timer.
THEOREM DeadlinesNotEarly == Spec => NeverEarly
<1>1. IInv /\ [Next]_vars =>
        [\A c \in Conns : c \in expired' \ expired => now' - since[c] > Timeout]_vars
  <2> SUFFICES ASSUME IInv, Next, NEW c \in Conns, c \in expired' \ expired
               PROVE  now' - since[c] > Timeout
    OBVIOUS
  <2>1. Tick
    BY DEF Next, Accept, Arrive, Start, ReadEnds, CutShort, ReadMore, Handle, Written
  <2>2. PICK i \in Due(now + 1) : tasks[i].conn = c
    BY <2>1 DEF Tick
  <2>3. i \in DOMAIN tasks /\ tasks[i].due < now + 1 /\ tasks[i].due = since[c] + Timeout
    BY <2>2 DEF Due, IInv, DueRight
  <2> QED BY <2>1, <2>3, CrowAssumption DEF Tick, IInv, TypeOK
<1> QED BY <1>1, CrowConnectionInv, PTL DEF Spec, NeverEarly

\* A waiting connection loses its deadline only through the stale identifier of
\* a connection without one.
THEOREM LossesExplained == Spec => LostOnlyToDeadless
<1>1. ASSUME IInv, Next, NEW c \in Conns, Waiting(c), Waiting(c)', HasDeadline(c),
             ~HasDeadline(c)'
      PROVE  \E d \in Conns \ {c} : ~HasDeadline(d) /\ reading'[d] # reading[d]
  <2>1. PICK i \in DOMAIN tasks : tasks[i].conn = c
    BY <1>1 DEF HasDeadline
  <2>2. ~(i \in DOMAIN tasks' /\ tasks'[i] = tasks[i])
    BY <1>1, <2>1 DEF HasDeadline
  <2>3. ~Tick
    <3> SUFFICES ASSUME Tick PROVE FALSE
      OBVIOUS
    <3>1. i \in Due(now + 1)
      BY <2>1, <2>2, TickStep, Parts, <1>1
    <3> QED BY <3>1, <2>1, <1>1 DEF Tick, Waiting
  <2>4. PICK d \in Conns : \/ Accept(d) \/ Arrive(d) \/ Start(d)
                           \/ ReadEnds(d) \/ CutShort(d) \/ ReadMore(d)
                           \/ Handle(d) \/ Written(d)
    BY <1>1, <2>3 DEF Next
  <2>5. /\ start_deadline(d) \/ cancel_deadline_timer(d)
        /\ reading[d] # "pending" /\ reading'[d] # reading[d]
    <3>1. tasks' # tasks
      BY <2>1, <2>2
    <3>2. Start(d) \/ ReadEnds(d) \/ CutShort(d) \/ ReadMore(d) \/ Handle(d)
      BY <2>4, <3>1 DEF Accept, Arrive, Written, timerVars
    <3> QED
      BY <3>2, <1>1
         DEF Start, ReadEnds, CutShort, CutsOff, ReadMore, Handle, HasData, AllSends, IInv, TypeOK
  <2>6. d # c
    BY <1>1, <2>5 DEF Waiting
  <2>7. i = task_id[d]
    <3>1. CASE start_deadline(d)
      BY <3>1, <2>1, <2>2, <1>1, Parts, StartDeadline
    <3>2. CASE cancel_deadline_timer(d)
      BY <3>2, <2>1, <2>2 DEF cancel_deadline_timer, Without
    <3> QED BY <2>5, <3>1, <3>2
  <2>8. ~HasDeadline(d)
    BY <1>1, <2>1, <2>6, <2>7 DEF IInv, OneDeadlineEach, HasDeadline
  <2> QED BY <2>5, <2>6, <2>8
<1>2. IInv /\ [Next]_vars =>
        [\A c \in Conns :
            Waiting(c) /\ Waiting(c)' /\ HasDeadline(c) /\ ~HasDeadline(c)'
               => \E d \in Conns \ {c} : ~HasDeadline(d) /\ reading'[d] # reading[d]]_vars
  BY <1>1
<1> QED BY <1>2, CrowConnectionInv, PTL DEF Spec, LostOnlyToDeadless

-----------------------------------------------------------------------------
(* Writing *)

\* While an answer is being written the parser holds the request it answers.
WriteInv ==
  \A c \in Conns \ (expects \cup overrun) :
     writes[c] <= 1 /\ (writes[c] = 1 => msg[c] = "done")

LEMMA WriteStep == Rest /\ WriteInv /\ [Next]_vars => WriteInv'
<1> SUFFICES ASSUME Rest, WriteInv, [Next]_vars PROVE WriteInv'
  OBVIOUS
<1>1. CASE UNCHANGED <<writes, msg, expects, overrun>>
  BY <1>1 DEF WriteInv
<1>2. ASSUME NEW c \in Conns, Handle(c) PROVE WriteInv'
  <2>1. msg[c] # "done" /\ expects' = expects
    BY <1>2 DEF Handle, Completes, Ignored
  <2>2. msg' = [msg EXCEPT ![c] = "done"]
    BY <1>2 DEF Handle
  <2>3. PICK n \in 1 .. MaxAnswers :
             /\ writes' = [writes EXCEPT ![c] = @ + n]
             /\ overrun' = IF n > 1 THEN overrun \cup {c} ELSE overrun
    BY <1>2 DEF Handle
  <2>4. CASE n > 1
    <3>1. /\ \A d \in Conns : d # c => writes'[d] = writes[d]
          /\ overrun' = overrun \cup {c}
      BY <2>3, <2>4 DEF Rest
    <3> QED BY <2>1, <2>2, <3>1 DEF WriteInv, Rest
  <2>5. CASE n = 1
    <3>1. writes' = [writes EXCEPT ![c] = @ + 1] /\ overrun' = overrun
      BY <2>3, <2>5
    <3> QED BY <2>1, <2>2, <3>1 DEF WriteInv, Rest
  <2> QED BY <2>3, <2>4, <2>5, CrowAssumption
<1>5. ASSUME NEW c \in Conns, CutShort(c) PROVE WriteInv'
  <2>1. msg[c] # "done" /\ UNCHANGED <<expects, overrun>>
    BY <1>5 DEF CutShort, CutsOff, Ignored
  <2>2. writes' = [writes EXCEPT ![c] = @ + 1] /\ msg' = [msg EXCEPT ![c] = "done"]
    BY <1>5 DEF CutShort
  <2> QED BY <2>1, <2>2 DEF WriteInv, Rest
<1>3. ASSUME NEW c \in Conns, ReadMore(c) PROVE WriteInv'
  <2> overrun' = overrun
    BY <1>3 DEF ReadMore
  <2>1. CASE Partial(c)
    <3>1. msg[c] = "none" /\ msg' = [msg EXCEPT ![c] = "head"]
      BY <1>3, <2>1 DEF ReadMore, Partial
    <3>2. \/ expects' = expects /\ writes' = writes
          \/ expects' = expects \cup {c} /\ writes' = [writes EXCEPT ![c] = @ + 1]
      BY <1>3 DEF ReadMore
    <3> QED BY <3>1, <3>2 DEF WriteInv, Rest
  <2>2. CASE ~Partial(c)
    <3>1. UNCHANGED <<writes, expects>> /\ msg' = [msg EXCEPT ![c] = msg[c]]
      BY <1>3, <2>2 DEF ReadMore
    <3> QED BY <3>1 DEF WriteInv, Rest
  <2> QED BY <2>1, <2>2
<1>4. ASSUME NEW c \in Conns, Written(c) PROVE WriteInv'
  <2>1. /\ writes[c] > 0 /\ writes' = [writes EXCEPT ![c] = @ - 1]
        /\ msg' = [msg EXCEPT ![c] = "none"] /\ UNCHANGED <<expects, overrun>>
    BY <1>4 DEF Written
  <2> QED BY <2>1 DEF WriteInv, Rest
<1> QED
  BY <1>1, <1>2, <1>3, <1>4, <1>5 DEF Next, vars, Tick, Accept, Arrive, Start, ReadEnds

\* Answers of one connection do not share its buffers, unless its client was told
\* to continue or sent bytes behind a body in the same read.
THEOREM OneWrite == Spec => []OneWriteAtATime
<1>1. Init => WriteInv
  <2> SUFFICES ASSUME Init PROVE WriteInv
    OBVIOUS
  <2>1. \A c \in Conns : writes[c] = 0
    BY DEF Init
  <2>2. \A n : n = 0 => n <= 1 /\ n # 1
    OBVIOUS
  <2> QED BY <2>1, <2>2, Zenon DEF WriteInv
<1>2. IInv /\ WriteInv /\ [Next]_vars => WriteInv'
  BY Parts, WriteStep
<1>3. WriteInv => OneWriteAtATime
  BY DEF WriteInv, OneWriteAtATime
<1> QED BY <1>1, <1>2, <1>3, CrowConnectionInv, PTL DEF Spec

-----------------------------------------------------------------------------
(* One connection alone *)

OwnsWhileOpen == \A c \in Conns : Active(c) /\ open[c] => OwnsTask(c)

\* Nobody else can take the only connection's deadline away.
LEMMA AloneStep ==
  ASSUME NEW th, Conns = {th}, IInv, OwnsWhileOpen, [Next]_vars
  PROVE  OwnsWhileOpen'
<1> USE Parts
<1> SUFFICES ASSUME Active(th)', open'[th] PROVE OwnsTask(th)'
  BY DEF OwnsWhileOpen
<1>1. CASE UNCHANGED vars
  BY <1>1 DEF vars, timerVars, Active, OwnsTask, OwnsWhileOpen
<1>2. CASE Tick
  <2>1. open[th] /\ reading'[th] = reading[th] /\ \A i \in Due(now + 1) : tasks[i].conn # th
    BY <1>2 DEF Tick, IInv, TypeOK
  <2>2. OwnsTask(th)
    BY <2>1 DEF Active, OwnsWhileOpen
  <2>3. task_id'[th] = task_id[th]
    BY <1>2 DEF Tick
  <2> QED BY <1>2, <2>1, <2>2, <2>3, TickStep DEF OwnsTask
<1>3. CASE start_deadline(th)
  BY <1>3, StartDeadline DEF OwnsTask, TimerInv
<1>4. CASE Arrive(th) \/ Written(th)
  <2>1. Active(th) /\ open[th] /\ UNCHANGED timerVars
    BY <1>4 DEF Arrive, Written, Active, IInv, TypeOK
  <2> QED BY <2>1 DEF timerVars, OwnsTask, OwnsWhileOpen
<1>5. ~Accept(th)
  BY DEF Accept, Active, IInv, TypeOK, AllSends
<1>6. ~ReadEnds(th) /\ ~CutShort(th)
  BY DEF ReadEnds, CutShort, IInv, TypeOK
<1>7. ASSUME Handle(th) PROVE start_deadline(th)
  BY <1>7 DEF Handle, Active, IInv, TypeOK, AllSends
<1> QED
  BY <1>1, <1>2, <1>3, <1>4, <1>5, <1>6, <1>7 DEF Next, Start, ReadMore

\* A connection that has its worker's timer to itself is closed in time.
THEOREM ClosedInTimeAlone == ASSUME NEW th, Conns = {th} PROVE Spec => []ClosedInTime
<1>1. Init => OwnsWhileOpen
  BY DEF Init, OwnsWhileOpen
<1>2. IInv /\ OwnsWhileOpen /\ [Next]_vars => OwnsWhileOpen'
  BY AloneStep
<1>3. IInv /\ OwnsWhileOpen => ClosedInTime
  BY CrowAssumption
     DEF ClosedInTime, Waiting, OwnsWhileOpen, Active, OwnsTask, IInv, DueRight, TypeOK
<1> QED BY <1>1, <1>2, <1>3, CrowConnectionInv, PTL DEF Spec
=============================================================================
