------------------------------ MODULE PollProofs ------------------------------
(***************************************************************************)
(* Proofs about a poll: the calls to the peers, for any number of peers    *)
(* and faults and any limits of the back-off, and the text of an answer,   *)
(* for any events, sizes that are ints, and number of events.              *)
(***************************************************************************)
EXTENDS Connections, EventWire, SequenceTheorems, FiniteSetTheorems, TLAPS

LEMMA MinOfTwo ==
  ASSUME NEW a \in Int, NEW b \in Int
  PROVE  Min({a, b}) = IF a <= b THEN a ELSE b
<1> DEFINE m == IF a <= b THEN a ELSE b
<1>1. m \in {a, b} /\ \A y \in {a, b} : m =< y
  OBVIOUS
<1>2. \A x \in {a, b} : (\A y \in {a, b} : x =< y) => x = m
  OBVIOUS
<1>3. Min({a, b}) \in {a, b} /\ \A y \in {a, b} : Min({a, b}) =< y
  BY <1>1 DEF Min
<1> QED BY <1>2, <1>3

\* Time goes on for all connections.
LEMMA Ages ==
  ASSUME TypeOK, NEW d \in Nat
  PROVE  /\ AllLater(d) \in [Conns -> 0..Long]
         /\ \A c \in Conns : AllLater(d)[c] <= age[c] + d
<1> SUFFICES ASSUME NEW c \in Conns
             PROVE  Later(c, d) \in 0..Long /\ Later(c, d) <= age[c] + d
  BY DEF AllLater
<1>1. age[c] + d \in Int /\ Long \in Int
  BY ConnectionsAssumption DEF TypeOK
<1>2. Later(c, d) = IF age[c] + d <= Long THEN age[c] + d ELSE Long
  BY <1>1, MinOfTwo DEF Later
<1> QED BY <1>1, <1>2, ConnectionsAssumption DEF TypeOK

LEMMA ConnsType == Conns \subseteq Nat \ {0} /\ 1 \in Conns /\ Peers \in Conns
BY ConnectionsAssumption DEF Conns

\* The loop index stays one of the connections.
LEMMA NextConnType ==
  ASSUME conn \in Conns, NEW then, NextConn(then)
  PROVE  /\ conn' \in Conns
         /\ \/ pc' = pc /\ conn < Peers /\ conn' = conn + 1
            \/ pc' = then /\ conn = Peers /\ conn' = 1
BY ConnectionsAssumption DEF NextConn, Conns

LEMMA InitInv == Init => IInv
BY ConnsType, ConnectionsAssumption DEF Init, IInv, TypeOK, LoopInv, FreshInv, BackOffInv, PassedBy

LEMMA FaultInv == ASSUME IInv, Fault PROVE IInv'
<1>1. /\ up' \in [Conns -> BOOLEAN]
      /\ id' \in [Conns -> {"good", "stale", "empty"}]
  BY DEF IInv, TypeOK, Fault, Crash, Restart
<1> QED BY <1>1 DEF IInv, TypeOK, LoopInv, FreshInv, BackOffInv, PassedBy, Fault

LEMMA ReturnInv == ASSUME IInv, NEW c \in Conns, Return(c) PROVE IInv'
BY DEF IInv, TypeOK, LoopInv, FreshInv, BackOffInv, PassedBy, Return

\* A call is only left out after a failure.
LEMMA PutOffFailed ==
  ASSUME IInv, PutOff(conn) PROVE count_try[conn] > 0
BY ConnectionsAssumption DEF IInv, TypeOK, PutOff

LEMMA SkipInv == ASSUME IInv, Skip PROVE IInv'
<1>1. conn' \in Conns /\ \/ pc' = "round" /\ conn' = conn + 1
                         \/ pc' = "rounds" /\ conn = Peers /\ conn' = 1
  BY NextConnType DEF IInv, TypeOK, Skip
<1>2. TypeOK'
  BY <1>1 DEF IInv, TypeOK, Skip, peerVars
<1>3. FreshInv'
  BY <1>1, PutOffFailed, ConnsType DEF IInv, TypeOK, FreshInv, PassedBy, Skip, Conns
<1>4. BackOffInv'
  BY <1>1, ConnsType DEF IInv, TypeOK, BackOffInv, Skip
<1> QED BY <1>1, <1>2, <1>3, <1>4 DEF IInv, LoopInv

\* A call of a peer that has used up its calls waits for as long as a poll takes.
LEMMA LastCall ==
  ASSUME IInv, Call PROVE failed[conn] <= Few + 1 /\ (failed[conn] = Few + 1 => dur >= Short)
<1>1. /\ conn \in Conns /\ pc = "round" /\ ~PutOff(conn)
      /\ failed[conn] \in Int /\ count_try[conn] \in Int /\ age[conn] \in Int /\ dur \in Int
  BY DEF IInv, TypeOK, Call
<1>2. failed[conn] <= Few + 1
  BY <1>1, ConnsType, ConnectionsAssumption DEF IInv, BackOffInv
<1>3. ASSUME failed[conn] = Few + 1 PROVE dur >= Short
  <2>1. count_try[conn] > Few
    BY <1>1, <1>3, ConnectionsAssumption DEF IInv, BackOffInv
  <2>2. age[conn] >= Short
    BY <1>1, <2>1, ConnectionsAssumption DEF PutOff
  <2>3. age[conn] <= dur \/ dur > Short
    BY <1>1, <1>3, ConnectionsAssumption DEF IInv, BackOffInv
  <2> QED BY <1>1, <2>2, <2>3, ConnectionsAssumption
<1> QED BY <1>2, <1>3

LEMMA CallInv == ASSUME IInv, Call PROVE IInv'
<1>1. conn' \in Conns /\ \/ pc' = "round" /\ conn' = conn + 1
                         \/ pc' = "rounds" /\ conn = Peers /\ conn' = 1
  BY NextConnType DEF IInv, TypeOK, Call
<1>2. PICK d \in 0..MaxDelay : /\ dur' = Min({dur + d, Short + 1})
                               /\ age' = [AllLater(d) EXCEPT ![conn] = 0]
  BY DEF Call
<1>3. d \in Nat /\ dur \in 0..(Short + 1) /\ conn \in Conns /\ Short \in Nat /\ Few \in Nat
      /\ Many \in Nat /\ Few < Many /\ Long \in Nat
  BY <1>2, ConnectionsAssumption DEF IInv, TypeOK
<1>4. dur' = IF dur + d <= Short + 1 THEN dur + d ELSE Short + 1
  BY <1>2, <1>3, MinOfTwo
<1>5. /\ age' \in [Conns -> 0..Long]
      /\ age'[conn] = 0
      /\ \A c \in Conns : age'[c] <= age[c] + d
  <2>1. AllLater(d) \in [Conns -> 0..Long] /\ \A c \in Conns : AllLater(d)[c] <= age[c] + d
    BY <1>3, Ages DEF IInv
  <2> QED BY <1>2, <1>3, <2>1 DEF IInv, TypeOK
<1>6. \/ /\ \E r \in Answers(conn) : respon' = [respon EXCEPT ![conn] = r]
         /\ count_try' = [count_try EXCEPT ![conn] = 0]
         /\ asked' = [asked EXCEPT ![conn] = "answered"]
         /\ failed' = [failed EXCEPT ![conn] = 0]
      \/ /\ count_try' = [count_try EXCEPT ![conn] = IF @ + 1 <= Many THEN @ + 1 ELSE Many]
         /\ asked' = [asked EXCEPT ![conn] = "failed"]
         /\ failed' = [failed EXCEPT ![conn] = @ + 1]
         /\ UNCHANGED respon
  <2>1. count_try[conn] \in Nat /\ failed[conn] \in Nat /\ failed[conn] <= Few + 1
    BY <1>3, LastCall DEF IInv, TypeOK
  <2>2. Min({count_try[conn] + 1, Many}) = IF count_try[conn] + 1 <= Many THEN count_try[conn] + 1 ELSE Many
    BY <1>3, <2>1, MinOfTwo
  <2>3. Min({failed[conn] + 1, Few + 3}) = failed[conn] + 1
    BY <1>3, <2>1, MinOfTwo
  <2>4. CASE up[conn] /\ \E r \in Answers(conn) : respon' = [respon EXCEPT ![conn] = r]
    BY <2>2, <2>3, <2>4 DEF Call
  <2> QED BY <2>2, <2>3, <2>4 DEF Call
<1>7. respon' \in [Conns -> {"nothing", "events", "error"}]
  <2>1. Answers(conn) \subseteq {"nothing", "events", "error"}
    BY <1>3 DEF Answers, IInv, TypeOK
  <2> QED BY <1>3, <1>6, <2>1 DEF IInv, TypeOK
<1>8. /\ count_try' \in [Conns -> 0..Many]
      /\ asked' \in [Conns -> {"not", "answered", "failed"}]
      /\ failed' \in [Conns -> 0..(Few + 3)]
  <2>1. failed[conn] <= Few + 1
    BY LastCall
  <2> QED BY <1>3, <1>6, <2>1 DEF IInv, TypeOK
<1>9. TypeOK'
  BY <1>1, <1>3, <1>4, <1>5, <1>7, <1>8 DEF IInv, TypeOK, Call, peerVars
<1>10. FreshInv'
  <2> SUFFICES ASSUME NEW c \in Conns, PassedBy(c)', count_try'[c] = 0
               PROVE  asked'[c] = "answered"
    BY DEF FreshInv
  <2>1. CASE c = conn
    BY <1>3, <1>6, <2>1 DEF IInv, TypeOK
  <2>2. CASE c # conn
    <3>1. PassedBy(c)
      BY <1>1, <1>3, <2>2 DEF PassedBy, Call, Conns
    <3> QED BY <1>3, <1>6, <2>2, <3>1 DEF IInv, TypeOK, FreshInv
  <2> QED BY <2>1, <2>2
<1>11. BackOffInv'
  <2> SUFFICES ASSUME NEW c \in Conns
               PROVE  /\ failed'[c] <= Few + 2
                      /\ failed'[c] <= count_try'[c] \/ count_try'[c] > Few
                      /\ failed'[c] > 0 => age'[c] <= dur' \/ dur' > Short
                      /\ failed'[c] > Few + 1 => dur' >= Short /\ (pc' = "round" => c < conn')
    BY DEF BackOffInv
  <2>1. CASE c = conn
    <3>1. /\ failed[c] <= Few + 1 /\ (failed[c] = Few + 1 => dur >= Short)
          /\ failed[c] <= count_try[c] \/ count_try[c] > Few
      BY <2>1, LastCall DEF IInv, BackOffInv
    <3>2. /\ failed'[c] = 0 \/ failed'[c] = failed[c] + 1
          /\ failed'[c] = 0 => count_try'[c] = 0
          /\ failed'[c] # 0 => count_try'[c] = IF count_try[c] + 1 <= Many THEN count_try[c] + 1 ELSE Many
      BY <1>3, <1>6, <2>1 DEF IInv, TypeOK
    <3>3. failed[c] \in Nat /\ count_try[c] \in Nat
      BY DEF IInv, TypeOK
    <3>4. failed'[c] > Few + 1 => dur' >= Short
      BY <1>3, <1>4, <3>1, <3>2, <3>3
    <3>5. age'[c] <= dur'
      BY <1>3, <1>4, <1>5, <2>1
    <3>6. pc' = "round" => c < conn'
      BY <1>1, <1>3, <2>1, ConnsType
    <3> QED BY <1>3, <3>1, <3>2, <3>3, <3>4, <3>5, <3>6
  <2>2. CASE c # conn
    <3>1. failed'[c] = failed[c] /\ count_try'[c] = count_try[c]
      BY <1>3, <1>6, <2>2 DEF IInv, TypeOK
    <3>2. failed[c] \in Nat /\ count_try[c] \in Nat /\ age[c] \in Nat /\ age'[c] \in Nat
      BY <1>5 DEF IInv, TypeOK
    <3>3. pc = "round" /\ (failed[c] > 0 => age[c] <= dur \/ dur > Short)
      BY DEF IInv, BackOffInv, Call
    <3>4. age'[c] <= age[c] + d
      BY <1>5
    <3>5. failed[c] > 0 => age'[c] <= dur' \/ dur' > Short
      BY <1>3, <1>4, <3>2, <3>3, <3>4
    <3>6. failed[c] > Few + 1 => dur' >= Short /\ (pc' = "round" => c < conn')
      BY <1>1, <1>3, <1>4, <3>3, ConnsType DEF IInv, BackOffInv
    <3> QED BY <3>1, <3>5, <3>6 DEF IInv, BackOffInv
  <2> QED BY <2>1, <2>2
<1> QED BY <1>1, <1>9, <1>10, <1>11 DEF IInv, LoopInv

LEMMA RoundsInv == ASSUME IInv, Rounds PROVE IInv'
<1>1. dur \in 0..(Short + 1) /\ Short \in Nat /\ Few \in Nat
  BY ConnectionsAssumption DEF IInv, TypeOK
<1>2. dur' = IF dur + 1 <= Short + 1 THEN dur + 1 ELSE Short + 1
  BY <1>1, MinOfTwo DEF Rounds
<1>3. age' \in [Conns -> 0..Long] /\ \A c \in Conns : age'[c] <= age[c] + 1
  BY Ages DEF IInv, Rounds
<1>4. pc' \in {"round", "use"} /\ (pc' = "round" => dur' <= Short)
  BY <1>1, <1>2 DEF Rounds
<1>5. TypeOK'
  BY <1>1, <1>2, <1>3, <1>4 DEF IInv, TypeOK, Rounds, peerVars
<1>6. FreshInv'
  BY DEF IInv, FreshInv, PassedBy, Rounds
<1>7. BackOffInv'
  <2> SUFFICES ASSUME NEW c \in Conns
               PROVE  /\ failed[c] <= Few + 2
                      /\ failed[c] <= count_try[c] \/ count_try[c] > Few
                      /\ failed[c] > 0 => age'[c] <= dur' \/ dur' > Short
                      /\ failed[c] > Few + 1 => dur' >= Short /\ pc' # "round"
    BY DEF BackOffInv, Rounds
  <2>1. failed[c] \in Nat /\ age[c] \in Nat /\ age'[c] \in Nat
    BY <1>3 DEF IInv, TypeOK
  <2>2. pc = "rounds" /\ (failed[c] > 0 => age[c] <= dur \/ dur > Short)
    BY DEF IInv, BackOffInv, Rounds
  <2>3. failed[c] > 0 => age'[c] <= dur' \/ dur' > Short
    BY <1>1, <1>2, <1>3, <2>1, <2>2
  <2>4. failed[c] > Few + 1 => dur' > Short
    BY <1>1, <1>2 DEF IInv, BackOffInv
  <2> QED BY <1>1, <1>2, <1>4, <2>3, <2>4 DEF IInv, BackOffInv
<1> QED BY <1>4, <1>5, <1>6, <1>7 DEF IInv, LoopInv

LEMMA UseInv == ASSUME IInv, Use PROVE IInv'
<1>1. conn' \in Conns /\ pc' \in {"use", "sleep"} /\ pc = "use" /\ (pc' = "sleep" => conn' = 1)
  BY NextConnType DEF IInv, TypeOK, Use
<1>2. /\ id' \in [Conns -> {"good", "stale", "empty"}]
      /\ age' \in [Conns -> 0..Long]
  <2>1. ASSUME NEW d \in 0..MaxDelay, get_myid(d)
        PROVE  /\ id' \in [Conns -> {"good", "stale", "empty"}]
               /\ age' \in [Conns -> 0..Long]
    BY <2>1, Ages, ConnectionsAssumption DEF get_myid, IInv, TypeOK
  <2>2. CASE UNCHANGED <<id, age>>
    BY <2>2 DEF IInv, TypeOK
  <2> QED BY <2>1, <2>2 DEF Use
<1>3. TypeOK'
  BY <1>1, <1>2 DEF IInv, TypeOK, Use, peerVars
<1>4. FreshInv'
  BY <1>1 DEF IInv, FreshInv, PassedBy, Use
<1>5. BackOffInv'
  BY <1>1 DEF IInv, BackOffInv, Use
<1> QED BY <1>1, <1>3, <1>4, <1>5 DEF IInv, LoopInv

LEMMA SleepInv == ASSUME IInv, Sleep PROVE IInv'
<1>1. age' \in [Conns -> 0..Long]
  BY Ages, ConnectionsAssumption DEF IInv, Sleep
<1>2. TypeOK'
  BY <1>1, ConnectionsAssumption DEF IInv, TypeOK, Sleep, peerVars
<1>3. FreshInv'
  <2>1. conn = 1 /\ pc' = "round" /\ conn' = conn
    BY DEF Sleep, IInv, LoopInv
  <2> QED BY <2>1, ConnsType DEF FreshInv, PassedBy
<1>4. BackOffInv'
  BY ConnectionsAssumption, <1>2 DEF BackOffInv, Sleep, IInv, TypeOK
<1> QED BY <1>2, <1>3, <1>4 DEF IInv, LoopInv, Sleep

-----------------------------------------------------------------------------

\* The invariant of the polls holds throughout every run.
THEOREM ConnectionsInvariant == Spec => []IInv
<1>1. IInv /\ [Next]_vars => IInv'
  <2> SUFFICES ASSUME IInv, [Next]_vars PROVE IInv'
    OBVIOUS
  <2>1. CASE Loop
    BY <2>1, SkipInv, CallInv, RoundsInv, UseInv, SleepInv DEF Loop
  <2>2. CASE UNCHANGED vars
    BY <2>2 DEF vars, peerVars, IInv, TypeOK, LoopInv, FreshInv, BackOffInv, PassedBy
  <2> QED BY <2>1, <2>2, FaultInv, ReturnInv DEF Next
<1> QED BY <1>1, InitInv, PTL DEF Spec

\* What an earlier poll has left in respon_str is never used.
THEOREM AnswersUsedAreFresh == Spec => []AnswersAreFresh
<1>1. IInv => AnswersAreFresh
  BY DEF IInv, FreshInv, PassedBy, AnswersAreFresh, Used, Ready
<1> QED BY <1>1, ConnectionsInvariant, PTL

\* A poll calls a peer that does not answer at most Few + 2 times.
THEOREM DeadPeersAreLeftAlone == Spec => []BackOff
<1>1. IInv => BackOff
  BY DEF IInv, BackOffInv, BackOff
<1> QED BY <1>1, ConnectionsInvariant, PTL

-----------------------------------------------------------------------------
\* Sizes: std::to_string and atoi

\* An int has ten digits at most.
LEMMA Ints == \A m \in 0..MaxInt : m \in Nat /\ m < 10 * Power[10]
<1>1. Power[10] = 1000000000
  BY SMT DEF Power
<1>2. MaxInt \in Nat /\ MaxInt < 10 * 1000000000
  BY SMT DEF MaxInt
<1> QED BY <1>1, <1>2

\* One digit more of a number.
LEMMA PowerStep ==
  ASSUME NEW m \in Nat, NEW e \in 1..9
  PROVE  10 * (m \div Power[e + 1]) + ((m \div Power[e]) % 10) = m \div Power[e]
BY SMT DEF Power

\* The first of the digits that a number fits in.
LEMMA TopDigit ==
  ASSUME NEW m \in Nat, m < 10 * Power[10],
         NEW e \in 1..10, e = 10 \/ m < Power[e + 1]
  PROVE  (m \div Power[e]) % 10 = m \div Power[e]
<1>2. CASE e = 10
  BY <1>2, SMT DEF Power
<1>3. CASE e = 1
  BY <1>3, SMT DEF Power
<1>4. CASE e = 2
  BY <1>4, SMT DEF Power
<1>5. CASE e = 3
  BY <1>5, SMT DEF Power
<1>6. CASE e = 4
  BY <1>6, SMT DEF Power
<1>7. CASE e = 5
  BY <1>7, SMT DEF Power
<1>8. CASE e = 6
  BY <1>8, SMT DEF Power
<1>9. CASE e = 7
  BY <1>9, SMT DEF Power
<1>10. CASE e = 8
  BY <1>10, SMT DEF Power
<1>11. CASE e = 9
  BY <1>11, SMT DEF Power
<1> QED BY <1>2, <1>3, <1>4, <1>5, <1>6, <1>7, <1>8, <1>9, <1>10, <1>11

\* What CHOOSE finds.
LEMMA Widths ==
  ASSUME NEW m \in 0..MaxInt
  PROVE  /\ Width(m) \in 1..10
         /\ Width(m) = 10 \/ m < Power[Width(m) + 1]
<1>1. \E w \in 1..10 : (w = 1 \/ Power[w] <= m) /\ (w = 10 \/ m < Power[w + 1])
  <2>1. \A w \in 1..9 : Power[w] \in Nat /\ Power[w + 1] \in Nat
    BY SMT DEF Power
  <2> QED BY <2>1, SMT DEF Power
<1> QED BY <1>1 DEF Width

\* A digit stands for its value.
LEMMA ValueOf == \A d \in 0..9 : Digit[d + 1] \in Digits /\ Value(Digit[d + 1]) = d
<1>1. \A d, f \in 0..9 : Digit[d + 1] = Digit[f + 1] => d = f
  BY DEF Digit
<1>2. \A d \in 0..9 : Digit[d + 1] \in Digits
  BY DEF Digits
<1> QED BY <1>1, <1>2 DEF Value

\* The first k characters behind the blanks are digits.
Leading(t, blank, k) == \A i \in 1..k : blank + i \in DOMAIN t /\ t[blank + i] \in Digits

\* The values that atoi goes through.
AtoiTrace(t, blank, v) ==
  /\ Atoi(t) = v[10]
  /\ v[0] = 0
  /\ \A k \in 1..10 :
        v[k] = IF Leading(t, blank, k) THEN 10 * v[k - 1] + Value(t[blank + k]) ELSE v[k - 1]

\* The recursion in Atoi, unrolled: whatever the text is, it has ten steps.
LEMMA AtoiSteps ==
  ASSUME NEW t, NEW blank, blank = IF t # <<>> /\ t[1] = EOL THEN 1 ELSE 0
  PROVE  \E v : AtoiTrace(t, blank, v)
<1> DEFINE Leads(k) == \A i \in 1..k : blank + i \in DOMAIN t /\ t[blank + i] \in Digits
           step(x, k) == IF Leads(k) THEN 10 * x + Value(t[blank + k]) ELSE x
           body(v) == [k \in 0..10 |-> IF k = 0 THEN 0
                                       ELSE IF Leads(k) THEN 10 * v[k - 1] + Value(t[blank + k])
                                       ELSE v[k - 1]]
           v1 == step(0, 1)    v2 == step(v1, 2)   v3 == step(v2, 3)   v4 == step(v3, 4)
           v5 == step(v4, 5)   v6 == step(v5, 6)   v7 == step(v6, 7)   v8 == step(v7, 8)
           v9 == step(v8, 9)   v10 == step(v9, 10)
           w == [k \in 0..10 |-> IF k = 0 THEN 0 ELSE
                                 IF k = 1 THEN v1 ELSE IF k = 2 THEN v2 ELSE
                                 IF k = 3 THEN v3 ELSE IF k = 4 THEN v4 ELSE
                                 IF k = 5 THEN v5 ELSE IF k = 6 THEN v6 ELSE
                                 IF k = 7 THEN v7 ELSE IF k = 8 THEN v8 ELSE
                                 IF k = 9 THEN v9 ELSE v10]
           v == CHOOSE f : f = body(f)
<1> HIDE DEF Leads
<1>1. w = body(w)
  <2> HIDE DEF step
  <2>0. /\ v1 = step(0, 1)   /\ v2 = step(v1, 2)  /\ v3 = step(v2, 3)  /\ v4 = step(v3, 4)
        /\ v5 = step(v4, 5)  /\ v6 = step(v5, 6)  /\ v7 = step(v6, 7)  /\ v8 = step(v7, 8)
        /\ v9 = step(v8, 9)  /\ v10 = step(v9, 10)
    OBVIOUS
  <2> HIDE DEF v1, v2, v3, v4, v5, v6, v7, v8, v9, v10
  <2>1. /\ w[0] = 0 /\ w[1] = v1 /\ w[2] = v2 /\ w[3] = v3 /\ w[4] = v4 /\ w[5] = v5
        /\ w[6] = v6 /\ w[7] = v7 /\ w[8] = v8 /\ w[9] = v9 /\ w[10] = v10
    OBVIOUS
  <2> HIDE DEF w
  <2>2. /\ w[1] = step(w[0], 1) /\ w[2] = step(w[1], 2) /\ w[3] = step(w[2], 3)
        /\ w[4] = step(w[3], 4) /\ w[5] = step(w[4], 5) /\ w[6] = step(w[5], 6)
        /\ w[7] = step(w[6], 7) /\ w[8] = step(w[7], 8) /\ w[9] = step(w[8], 9)
        /\ w[10] = step(w[9], 10)
    BY <2>0, <2>1
  <2>3. \A k \in 1..10 : w[k] = step(w[k - 1], k)
    BY <2>2
  <2>4. \A k \in 0..10 : body(w)[k] = IF k = 0 THEN 0 ELSE step(w[k - 1], k)
    BY DEF step
  <2>5. \A k \in 0..10 : k = 0 \/ (k \in 1..10 /\ k # 0)
    OBVIOUS
  <2>6. \A k \in 0..10 : w[k] = body(w)[k]
    <3> HIDE DEF body
    <3> QED BY <2>1, <2>3, <2>4, <2>5
  <2> QED BY <2>6 DEF w
<1> HIDE DEF w
<1>2. v = body(v)
  <2> HIDE DEF body
  <2> QED BY <1>1
<1>3. Atoi(t) = v[10]
  BY DEF Atoi, Leads
<1> HIDE DEF v
<1>4. v[0] = 0 /\ \A k \in 1..10 : v[k] = step(v[k - 1], k)
  <2>1. \A k \in 0..10 : v[k] = body(v)[k]
    BY <1>2
  <2> QED BY <2>1
<1>5. \A k : Leads(k) = Leading(t, blank, k)
  BY DEF Leads, Leading
<1>6. AtoiTrace(t, blank, v)
  BY <1>3, <1>4, <1>5 DEF AtoiTrace
<1> QED BY <1>6

\* atoi is never negative here: no size has a sign.
LEMMA AtoiType == ASSUME NEW t PROVE Atoi(t) \in Nat
<1> DEFINE blank == IF t # <<>> /\ t[1] = EOL THEN 1 ELSE 0
           Leads(k) == Leading(t, blank, k)
<1>1. PICK v : AtoiTrace(t, blank, v)
  <2> HIDE DEF blank
  <2>1. blank = IF t # <<>> /\ t[1] = EOL THEN 1 ELSE 0
    BY DEF blank
  <2> QED BY <2>1, AtoiSteps
<1>2. \A k \in 1..10 : Leads(k) => Value(t[blank + k]) \in 0..9
  <2>1. \A c \in Digits : Value(c) \in 0..9
    BY ValueOf DEF Digits
  <2> HIDE DEF blank
  <2> QED BY <2>1 DEF Leading
<1> HIDE DEF Leads, blank
<1>3. \A k \in 1..10 : v[k - 1] \in Nat => v[k] \in Nat
  BY <1>1, <1>2 DEF AtoiTrace, Leads
<1>4. v[1] \in Nat
  BY <1>1, <1>3 DEF AtoiTrace
<1>5. v[4] \in Nat
  BY <1>4, <1>3
<1>6. v[7] \in Nat
  BY <1>5, <1>3
<1>7. v[10] \in Nat
  BY <1>6, <1>3
<1> QED BY <1>1, <1>7 DEF AtoiTrace

\* The digits of a size.
LEMMA DecimalType ==
  ASSUME NEW m \in 0..MaxInt
  PROVE  /\ Decimal(m) \in Seq(Digits)
         /\ Len(Decimal(m)) = Width(m) /\ Width(m) \in 1..10
         /\ DOMAIN Decimal(m) = 1..Width(m)
         /\ \A k \in 1..Width(m) :
               /\ Decimal(m)[k] = Digit[((m \div Power[Width(m) - k + 1]) % 10) + 1]
               /\ (m \div Power[Width(m) - k + 1]) % 10 \in 0..9
<1>1. \A e \in 1..10 : Power[e] \in Nat \ {0}
  BY SMT DEF Power
<1>2. \A e \in 1..10 : (m \div Power[e]) % 10 \in 0..9
  <2> TAKE e \in 1..10
  <2> DEFINE p == Power[e]
  <2>1. p \in Nat \ {0}
    BY <1>1
  <2> HIDE DEF p
  <2>2. m \div p \in Int
    BY <2>1, Ints
  <2> DEFINE q == m \div p
  <2> HIDE DEF q
  <2>3. q % 10 \in 0..9
    BY <2>2 DEF q
  <2> QED BY <2>3 DEF q, p
<1>3. Width(m) \in 1..10
  BY Widths
<1>4. \A k \in 1..Width(m) : (m \div Power[Width(m) - k + 1]) % 10 \in 0..9
  BY <1>2, <1>3
<1>5. Decimal(m) \in [1..Width(m) -> Digits]
  BY <1>4, ValueOf DEF Decimal
<1>6. \A k \in 1..Width(m) :
         Decimal(m)[k] = Digit[((m \div Power[Width(m) - k + 1]) % 10) + 1]
  BY DEF Decimal
<1> HIDE DEF Decimal
<1>7. Decimal(m) \in Seq(Digits) /\ Len(Decimal(m)) = Width(m) /\ DOMAIN Decimal(m) = 1..Width(m)
  BY <1>3, <1>5
<1> QED BY <1>3, <1>4, <1>6, <1>7

\* No character is two things.
LEMMA DigitsPlain ==
  /\ \A c \in Digits : c \notin Brackets /\ c # EOL
  /\ \A c \in Hashes : c \notin Digits /\ c \notin Brackets /\ c # EOL
  /\ LBrace # RBrace /\ LBrace # RBracket /\ LBrace # LBracket /\ LBrace # EOL
  /\ RBrace # RBracket /\ RBrace # LBracket /\ RBrace # EOL
  /\ RBracket # EOL /\ LBracket # RBracket /\ LBracket # EOL
<1>1. /\ \A k \in 1..10 : Digit[k] # "{"
      /\ \A k \in 1..10 : Digit[k] # "}"
      /\ \A k \in 1..10 : Digit[k] # "["
      /\ \A k \in 1..10 : Digit[k] # "]"
      /\ \A k \in 1..10 : Digit[k] # "\n"
  BY DEF Digit
<1>2. \A c \in Digits : c \notin Brackets /\ c # EOL
  BY <1>1 DEF Digits, Brackets, LBrace, RBrace, LBracket, RBracket, EOL
<1>3. \A c \in Hashes : c \notin Digits /\ c \notin Brackets /\ c # EOL
  BY EventWireAssumption
<1>4. /\ LBrace # RBrace /\ LBrace # RBracket /\ LBrace # LBracket /\ LBrace # EOL
      /\ RBrace # RBracket /\ RBrace # LBracket /\ RBrace # EOL
      /\ RBracket # EOL /\ LBracket # RBracket /\ LBracket # EOL
  BY DEF LBrace, RBrace, LBracket, RBracket, EOL
<1> QED BY <1>2, <1>3, <1>4

\* atoi finds the number that was written, if no digit follows.
THEOREM AtoiOfDecimal ==
  ASSUME NEW m \in 0..MaxInt, NEW t \in Seq(Chars),
         Len(t) >= Width(m), \A k \in 1..Width(m) : t[k] = Decimal(m)[k],
         Len(t) > Width(m) => t[Width(m) + 1] \notin Digits
  PROVE  Atoi(t) = m
<1> DEFINE w == Width(m)
           Leads(k) == Leading(t, 0, k)
           digit(k) == (m \div Power[w - k + 1]) % 10
<1>1. w \in 1..10 /\ (w = 10 \/ m < Power[w + 1])
  BY Widths
<1>2. \A k \in 1..w : t[k] = Digit[digit(k) + 1] /\ digit(k) \in 0..9
  BY DecimalType
<1>0. Len(t) \in Nat /\ Len(t) >= w /\ (Len(t) > w => t[w + 1] \notin Digits) /\ DOMAIN t = 1..Len(t)
  OBVIOUS
<1> HIDE DEF w
<1>3. \A k \in 1..w : t[k] \in Digits /\ Value(t[k]) = digit(k)
  <2> HIDE DEF digit
  <2> QED BY <1>2, ValueOf
<1>4. t # <<>> /\ t[1] # EOL
  <2>1. t[1] \in Digits
    BY <1>1, <1>3
  <2>2. t # <<>>
    BY <1>0, <1>1
  <2> QED BY <2>1, <2>2, DigitsPlain
<1>5. \A k \in 1..10 : Leads(k) <=> k <= w
  <2> TAKE k \in 1..10
  <2>1. \A i \in 1..10 : 0 + i = i
    OBVIOUS
  <2>2. ASSUME k <= w PROVE Leads(k)
    <3>1. \A i \in 1..k : i \in 1..10 /\ i \in 1..w
      BY <1>1, <2>2
    <3>2. \A i \in 1..k : i \in DOMAIN t /\ t[i] \in Digits
      <4> TAKE i \in 1..k
      <4>1. i \in 1..w
        BY <3>1
      <4>2. i \in 1..Len(t)
        BY <1>0, <1>1, <4>1
      <4>3. t[i] \in Digits
        BY <1>3, <4>1
      <4> QED BY <1>0, <4>2, <4>3
    <3>3. \A i \in 1..k : 0 + i \in DOMAIN t /\ t[0 + i] \in Digits
      BY <2>1, <3>1, <3>2
    <3> QED BY <3>3 DEF Leading
  <2>3. ASSUME Leads(k), k > w PROVE FALSE
    <3>1. w + 1 \in 1..k /\ w + 1 \in 1..10
      BY <1>1, <2>3
    <3>2. w + 1 \in DOMAIN t /\ t[w + 1] \in Digits
      BY <2>1, <2>3, <3>1 DEF Leading
    <3> QED BY <1>0, <1>1, <3>2
  <2> QED BY <1>1, <2>2, <2>3
<1>6. PICK v : AtoiTrace(t, 0, v)
  <2>1. 0 = IF t # <<>> /\ t[1] = EOL THEN 1 ELSE 0
    BY <1>4
  <2> QED BY <2>1, AtoiSteps
<1> HIDE DEF Leads
<1>7. \A k \in 1..10 : v[k] = IF k <= w THEN 10 * v[k - 1] + digit(k) ELSE v[k - 1]
  <2>1. \A k \in 1..10 : 0 + k = k
    OBVIOUS
  <2>2. \A k \in 1..10 : v[k] = IF k <= w THEN 10 * v[k - 1] + Value(t[k]) ELSE v[k - 1]
    BY <1>5, <1>6, <2>1 DEF AtoiTrace, Leads
  <2> HIDE DEF digit
  <2> QED BY <1>1, <1>3, <2>2
<1> DEFINE Right(k) == v[k] = IF k <= w THEN m \div Power[w - k + 1] ELSE m
<1>8. Right(1)
  <2>1. v[1] = 10 * v[0] + digit(1) /\ v[0] = 0 /\ w - 1 + 1 = w
    <3>1. 1 \in 1..10 /\ 1 <= w /\ 1 - 1 = 0 /\ w - 1 + 1 = w
      BY <1>1
    <3> HIDE DEF digit
    <3>2. v[1] = 10 * v[1 - 1] + digit(1)
      BY <1>7, <3>1
    <3> QED BY <1>6, <3>1, <3>2 DEF AtoiTrace
  <2>3. v[1] = (m \div Power[w]) % 10
    <3>1. digit(1) = (m \div Power[w]) % 10
      BY <2>1
    <3>2. digit(1) \in 0..9
      BY <1>1, <1>2
    <3> HIDE DEF digit
    <3> QED BY <2>1, <3>1, <3>2
  <2>2. (m \div Power[w]) % 10 = m \div Power[w]
    BY <1>1, TopDigit, Ints
  <2> QED BY <1>1, <2>1, <2>2, <2>3
<1>9. \A k \in 2..10 : Right(k - 1) => Right(k)
  <2> TAKE k \in 2..10
  <2> HAVE Right(k - 1)
  <2>1. CASE k <= w
    <3> DEFINE e == w - k + 1
    <3>1. e \in 1..9 /\ w - (k - 1) + 1 = e + 1
      BY <1>1, <2>1
    <3>2. v[k - 1] = m \div Power[e + 1]
      BY <1>1, <2>1, <3>1
    <3>3. v[k] = 10 * v[k - 1] + ((m \div Power[e]) % 10)
      <4>1. digit(k) = (m \div Power[e]) % 10 /\ k \in 1..10
        OBVIOUS
      <4> HIDE DEF digit, e
      <4> QED BY <1>7, <2>1, <4>1
    <3> HIDE DEF e
    <3>4. v[k] = m \div Power[e]
      BY <3>1, <3>2, <3>3, PowerStep, Ints
    <3> QED BY <2>1, <3>4 DEF e
  <2>2. CASE k = w + 1
    <3>1. v[k] = v[k - 1]
      BY <1>1, <1>7, <2>2
    <3>2. v[k - 1] = m \div Power[1]
      BY <1>1, <2>2
    <3> QED BY <1>1, <2>2, <3>1, <3>2, SMT DEF Power
  <2>3. CASE k > w + 1
    BY <1>1, <1>7, <2>3
  <2> QED BY <1>1, <2>1, <2>2, <2>3
<1> HIDE DEF Right
<1>10. Right(4)
  BY <1>8, <1>9
<1>11. Right(7)
  BY <1>9, <1>10
<1>12. Right(10)
  BY <1>9, <1>11
<1>13. w = 10 => m \div Power[w - 10 + 1] = m
  BY Ints, SMT DEF Power
<1> QED BY <1>1, <1>6, <1>12, <1>13 DEF Right, AtoiTrace

-----------------------------------------------------------------------------
\* The texts of events, position by position

\* Texts put together.
LEMMA Concat ==
  ASSUME NEW s \in Seq(Chars), NEW t \in Seq(Chars)
  PROVE  /\ s \o t \in Seq(Chars) /\ Len(s \o t) = Len(s) + Len(t)
         /\ \A k \in 1..Len(s) : (s \o t)[k] = s[k]
         /\ \A k \in 1..Len(t) : (s \o t)[Len(s) + k] = t[k]
OBVIOUS

\* All characters are.
LEMMA InChars ==
  /\ LBrace \in Chars /\ RBrace \in Chars /\ LBracket \in Chars /\ RBracket \in Chars
  /\ EOL \in Chars /\ Digits \subseteq Chars /\ Hashes \subseteq Chars
BY DEF Chars, Brackets

\* A text of one character.
LEMMA One ==
  ASSUME NEW c \in Chars
  PROVE  <<c>> \in Seq(Chars) /\ Len(<<c>>) = 1 /\ <<c>>[1] = c
OBVIOUS

\* A character, a text and what comes after it.
LEMMA Enclosed ==
  ASSUME NEW c \in Chars, NEW s \in Seq(Chars), NEW t \in Seq(Chars)
  PROVE  /\ <<c>> \o s \o t \in Seq(Chars) /\ Len(<<c>> \o s \o t) = 1 + Len(s) + Len(t)
         /\ (<<c>> \o s \o t)[1] = c
         /\ \A k \in 1..Len(s) : (<<c>> \o s \o t)[k + 1] = s[k]
         /\ \A k \in 1..Len(t) : (<<c>> \o s \o t)[1 + Len(s) + k] = t[k]
<1> DEFINE a == <<c>>
           b == a \o s
<1>1. a \in Seq(Chars) /\ Len(a) = 1 /\ a[1] = c
  BY One
<1> HIDE DEF a
<1>2. /\ b \in Seq(Chars) /\ Len(b) = 1 + Len(s) /\ b[1] = c
      /\ \A k \in 1..Len(s) : b[1 + k] = s[k]
  <2>1. /\ b \in Seq(Chars) /\ Len(b) = Len(a) + Len(s)
        /\ \A k \in 1..Len(a) : b[k] = a[k]
        /\ \A k \in 1..Len(s) : b[Len(a) + k] = s[k]
    BY <1>1, Concat
  <2> HIDE DEF b
  <2> QED BY <1>1, <2>1
<1>3. \A k \in 1..Len(s) : b[k + 1] = s[k]
  <2>1. \A k \in 1..Len(s) : k + 1 = 1 + k
    OBVIOUS
  <2> QED BY <1>2, <2>1
<1> HIDE DEF b
<1>4. /\ b \o t \in Seq(Chars) /\ Len(b \o t) = Len(b) + Len(t)
      /\ \A k \in 1..Len(b) : (b \o t)[k] = b[k]
      /\ \A k \in 1..Len(t) : (b \o t)[Len(b) + k] = t[k]
  BY <1>2, Concat
<1>5. (b \o t)[1] = c /\ \A k \in 1..Len(s) : (b \o t)[k + 1] = s[k]
  <2>1. 1 \in 1..Len(b) /\ \A k \in 1..Len(s) : k + 1 \in 1..Len(b)
    BY <1>2
  <2> QED BY <1>2, <1>3, <1>4, <2>1
<1>6. (b \o t) = <<c>> \o s \o t
  BY DEF b, a
<1> QED BY <1>2, <1>4, <1>5, <1>6

\* The texts of JSON values, position by position.
LEMMA FillShape ==
  ASSUME NEW h \in Hashes, NEW m \in Nat
  PROVE  /\ Fill(h, m) \in Seq(Chars) /\ Len(Fill(h, m)) = m
         /\ \A k \in 1..m : Fill(h, m)[k] = h
<1>1. h \in Chars
  BY InChars
<1>2. Fill(h, m) \in [1..m -> Chars]
  BY <1>1 DEF Fill
<1>3. \A k \in 1..m : Fill(h, m)[k] = h
  BY DEF Fill
<1> QED BY <1>2, <1>3

\* What a flat object is made of.
LEMMA FlatShape ==
  ASSUME NEW h \in Hashes, NEW m \in Nat, m >= 2
  PROVE  /\ Flat(h, m) \in Seq(Chars) /\ Len(Flat(h, m)) = m
         /\ Flat(h, m)[1] = LBrace /\ Flat(h, m)[m] = RBrace
         /\ \A k \in 2..(m - 1) : Flat(h, m)[k] = h
<1> DEFINE fill == Fill(h, m - 2)
           back == <<RBrace>>
           all == <<LBrace>> \o fill \o back
<1>1. fill \in Seq(Chars) /\ Len(fill) = m - 2 /\ \A k \in 1..(m - 2) : fill[k] = h
  BY FillShape
<1>2. Flat(h, m) = all
  BY DEF Flat
<1>3. back \in Seq(Chars) /\ Len(back) = 1 /\ back[1] = RBrace
  BY InChars, One
<1> HIDE DEF fill, back
<1>4. /\ all \in Seq(Chars) /\ Len(all) = 1 + Len(fill) + Len(back)
      /\ all[1] = LBrace
      /\ \A k \in 1..Len(fill) : all[k + 1] = fill[k]
      /\ \A k \in 1..Len(back) : all[1 + Len(fill) + k] = back[k]
  <2>1. LBrace \in Chars /\ fill \in Seq(Chars) /\ back \in Seq(Chars)
    BY <1>1, <1>3, InChars
  <2> QED BY <2>1, Enclosed
<1> HIDE DEF all
<1>5. all[m] = RBrace
  <2>1. 1 + Len(fill) + 1 = m /\ 1 \in 1..Len(back)
    BY <1>1, <1>3
  <2> QED BY <1>3, <1>4, <2>1
<1>6. \A k \in 2..(m - 1) : all[k] = h
  <2> TAKE k \in 2..(m - 1)
  <2>1. k - 1 \in 1..(m - 2) /\ k - 1 + 1 = k
    OBVIOUS
  <2> QED BY <1>1, <1>4, <2>1
<1>7. Len(all) = m
  BY <1>1, <1>3, <1>4
<1> QED BY <1>2, <1>4, <1>5, <1>6, <1>7

\* Braces of an object in an object.
LEMMA NestedShape ==
  ASSUME NEW h \in Hashes, NEW m \in Nat, m >= 4
  PROVE  /\ Nested(h, m) \in Seq(Chars) /\ Len(Nested(h, m)) = m
         /\ Nested(h, m)[1] = LBrace /\ \A k \in 2..(m - 3) : Nested(h, m)[k] = h
         /\ Nested(h, m)[m - 2] = LBrace
         /\ Nested(h, m)[m - 1] = RBrace /\ Nested(h, m)[m] = RBrace
<1> DEFINE fill == Fill(h, m - 4)
           back == <<LBrace, RBrace, RBrace>>
           all == <<LBrace>> \o fill \o back
<1>1. fill \in Seq(Chars) /\ Len(fill) = m - 4 /\ \A k \in 1..(m - 4) : fill[k] = h
  BY FillShape
<1>2. Nested(h, m) = all
  BY DEF Nested
<1>3. back \in Seq(Chars) /\ Len(back) = 3 /\ back[1] = LBrace /\ back[2] = RBrace /\ back[3] = RBrace
  <2>1. LBrace \in Chars /\ RBrace \in Chars
    BY InChars
  <2> QED BY <2>1
<1> HIDE DEF fill, back
<1>4. /\ all \in Seq(Chars) /\ Len(all) = 1 + Len(fill) + Len(back)
      /\ all[1] = LBrace
      /\ \A k \in 1..Len(fill) : all[k + 1] = fill[k]
      /\ \A k \in 1..Len(back) : all[1 + Len(fill) + k] = back[k]
  <2>1. LBrace \in Chars /\ fill \in Seq(Chars) /\ back \in Seq(Chars)
    BY <1>1, <1>3, InChars
  <2> QED BY <2>1, Enclosed
<1> HIDE DEF all
<1>5. all[m - 2] = LBrace /\ all[m - 1] = RBrace /\ all[m] = RBrace
  <2>1. /\ 1 + Len(fill) + 1 = m - 2 /\ 1 + Len(fill) + 2 = m - 1 /\ 1 + Len(fill) + 3 = m
        /\ 1 \in 1..Len(back) /\ 2 \in 1..Len(back) /\ 3 \in 1..Len(back)
    BY <1>1, <1>3
  <2> QED BY <1>3, <1>4, <2>1
<1>6. \A k \in 2..(m - 3) : all[k] = h
  <2> TAKE k \in 2..(m - 3)
  <2>1. k - 1 \in 1..(m - 4) /\ k - 1 + 1 = k
    OBVIOUS
  <2> QED BY <1>1, <1>4, <2>1
<1>7. Len(all) = m
  BY <1>1, <1>3, <1>4
<1> QED BY <1>2, <1>4, <1>5, <1>6, <1>7

\* Sizes are ints.
LEMMA SizeBounds ==
  /\ IdSize \in Nat /\ IdSize >= 3 /\ IdSize \in 0..MaxInt
  /\ \A s \in MetaSizes \cup DataSizes : s \in Nat /\ s >= 4 /\ s \in 0..MaxInt
<1>1. MaxInt \in Nat
  BY SMT DEF MaxInt
<1>2. IdSize \in 3..MaxInt /\ MetaSizes \cup DataSizes \subseteq 4..MaxInt
  BY EventWireAssumption
<1> QED BY <1>1, <1>2

\* So are small ones.
LEMMA SmallSizes == \A m \in 0..9 : m \in 0..MaxInt
<1>1. MaxInt \in Nat /\ MaxInt > 9
  BY SMT DEF MaxInt
<1> QED BY <1>1

\* What an event is made of, whatever its data is.
LEMMA EventShape ==
  ASSUME NEW e \in AllEvents
  PROVE  /\ \E h \in Hashes : e.id = Flat(h, IdSize) /\ e.data \in Datas(h)
                              /\ \E s \in MetaSizes : e.meta = Nested(h, s)
         /\ e.id \in Seq(Chars) /\ e.meta \in Seq(Chars) /\ e.data \in Seq(Chars)
         /\ Len(e.id) \in 0..MaxInt /\ Len(e.meta) \in 0..MaxInt /\ Len(e.data) \in 0..MaxInt
         /\ Len(e.id) = IdSize /\ e.id[1] = LBrace /\ Len(e.meta) >= 4 /\ e.meta[1] = LBrace
<1>1. PICK h \in Hashes, s \in MetaSizes :
         e.id = Flat(h, IdSize) /\ e.data \in Datas(h) /\ e.meta = Nested(h, s)
  BY DEF AllEvents, Events
<1>2. e.id \in Seq(Chars) /\ Len(e.id) \in 0..MaxInt /\ Len(e.id) = IdSize /\ e.id[1] = LBrace
  <2>1. IdSize \in Nat /\ IdSize >= 2 /\ IdSize \in 0..MaxInt
    BY SizeBounds
  <2> QED BY <1>1, <2>1, FlatShape
<1>3. e.meta \in Seq(Chars) /\ Len(e.meta) \in 0..MaxInt /\ Len(e.meta) >= 4 /\ e.meta[1] = LBrace
  <2>1. s \in Nat /\ s >= 4 /\ s \in 0..MaxInt
    BY SizeBounds
  <2> QED BY <1>1, <2>1, NestedShape
<1>4. e.data \in Seq(Chars) /\ Len(e.data) \in 0..MaxInt
  <2>1. CASE e.data \in {Nested(h, z) : z \in DataSizes}
    <3>1. PICK z \in DataSizes : e.data = Nested(h, z)
      BY <2>1
    <3>2. z \in Nat /\ z >= 4 /\ z \in 0..MaxInt
      BY SizeBounds
    <3> QED BY <3>1, <3>2, NestedShape
  <2>2. CASE e.data = <<>>
    BY <2>2, SmallSizes
  <2>3. CASE e.data = <<LBrace, RBrace>>
    <3>1. e.data \in Seq(Chars) /\ Len(e.data) = 2
      BY <2>3, InChars
    <3> QED BY <3>1, SmallSizes
  <2>4. CASE e.data = <<"7", "3">>
    <3>1. "7" \in Chars /\ "3" \in Chars
      <4>1. Digit[8] = "7" /\ Digit[4] = "3"
        BY DEF Digit
      <4> QED BY <4>1, InChars DEF Digits
    <3>2. e.data \in Seq(Chars) /\ Len(e.data) = 2
      BY <2>4, <3>1
    <3> QED BY <3>2, SmallSizes
  <2>5. CASE e.data = Fill(h, 9)
    BY <2>5, FillShape, SmallSizes
  <2>6. CASE e.data = <<LBracket>> \o Flat(h, 5) \o <<RBracket>>
    <3> DEFINE inner == Flat(h, 5)
               back == <<RBracket>>
    <3>0. 5 \in Nat /\ 5 >= 2
      OBVIOUS
    <3>1. inner \in Seq(Chars) /\ Len(inner) = 5
      BY <3>0, FlatShape
    <3>2. back \in Seq(Chars) /\ Len(back) = 1 /\ LBracket \in Chars
      BY InChars, One
    <3> HIDE DEF inner, back
    <3>3. /\ <<LBracket>> \o inner \o back \in Seq(Chars)
          /\ Len(<<LBracket>> \o inner \o back) = 1 + Len(inner) + Len(back)
      <4>1. LBracket \in Chars /\ inner \in Seq(Chars) /\ back \in Seq(Chars)
        BY <3>1, <3>2
      <4> QED BY <4>1, Enclosed
    <3>4. e.data = <<LBracket>> \o inner \o back
      BY <2>6 DEF inner, back
    <3>5. e.data \in Seq(Chars) /\ Len(e.data) = 7
      BY <3>1, <3>2, <3>3, <3>4
    <3> QED BY <3>5, SmallSizes
  <2> QED BY <1>1, <2>1, <2>2, <2>3, <2>4, <2>5, <2>6 DEF Datas
<1> QED BY <1>1, <1>2, <1>3, <1>4

-----------------------------------------------------------------------------
\* Which texts are objects

\* What is never closed is no object.
LEMMA NoClose ==
  ASSUME NEW t \in Seq(Chars), \A k \in 1..Len(t) : t[k] # RBrace
  PROVE  ~IsObject(t)
<1>1. At(t, RBrace) = {}
  BY DEF At
<1> QED BY <1>1 DEF IsObject

\* After the brace that closes it, an object has blanks only.
LEMMA ObjectEnds ==
  ASSUME NEW t \in Seq(Chars), NEW q \in Nat, q >= 2, q < Len(t),
         t[1] = LBrace, t[q] = RBrace, t[q + 1] # EOL,
         \A k \in 2..(q - 1) : t[k] # LBrace /\ t[k] # RBrace
  PROVE  ~IsObject(t)
<1> DEFINE opens == At(t, LBrace)
           closes == At(t, RBrace)
           opensTo(k) == {i \in opens : i <= k}
           closesTo(k) == {i \in closes : i <= k}
<1>0. DOMAIN t = 1..Len(t) /\ Len(t) \in Nat
  OBVIOUS
<1>1. opensTo(q) = {1}
  <2>1. \A k \in opensTo(q) : k = 1
    <3> TAKE k \in opensTo(q)
    <3>1. k \in 1..q /\ t[k] = LBrace
      BY <1>0 DEF At
    <3>2. k # q
      BY <3>1, DigitsPlain
    <3>3. k \notin 2..(q - 1)
      BY <3>1
    <3> QED BY <3>1, <3>2, <3>3
  <2>2. 1 \in opensTo(q)
    BY <1>0 DEF At
  <2> QED BY <2>1, <2>2
<1>2. closesTo(q) = {q}
  <2>1. \A k \in closesTo(q) : k = q
    <3> TAKE k \in closesTo(q)
    <3>1. k \in 1..q /\ t[k] = RBrace
      BY <1>0 DEF At
    <3>2. k # 1
      BY <3>1, DigitsPlain
    <3>3. k \notin 2..(q - 1)
      BY <3>1
    <3> QED BY <3>1, <3>2, <3>3
  <2>2. q \in closesTo(q)
    BY <1>0 DEF At
  <2> QED BY <2>1, <2>2
<1>3. Cardinality(opensTo(q)) = 1 /\ Cardinality(closesTo(q)) = 1
  BY <1>1, <1>2, FS_Singleton
<1>4. SUFFICES ASSUME IsObject(t) PROVE FALSE
  OBVIOUS
<1>5. PICK last \in closes :
         /\ \A k \in closes \ {last} : Cardinality(opensTo(k)) - Cardinality(closesTo(k)) > 0
         /\ \A k \in (last + 1)..Len(t) : t[k] = EOL
  <2>1. \A k : Depth(t, k) = Cardinality(opensTo(k)) - Cardinality(closesTo(k))
    BY DEF Depth
  <2> HIDE DEF opensTo, closesTo
  <2> QED BY <1>4, <2>1 DEF IsObject
<1>6. q \in closes
  BY <1>0 DEF At
<1> HIDE DEF opensTo, closesTo
<1>7. last = q
  BY <1>3, <1>5, <1>6
<1>8. q + 1 \in (last + 1)..Len(t)
  BY <1>0, <1>7
<1> QED BY <1>5, <1>8

\* Braces around anything else are one object.
LEMMA PlainObject ==
  ASSUME NEW t \in Seq(Chars), NEW m \in Nat, m >= 2, Len(t) = m,
         t[1] = LBrace, t[m] = RBrace,
         \A k \in 2..(m - 1) : t[k] # LBrace /\ t[k] # RBrace
  PROVE  IsObject(t)
<1> DEFINE opens == At(t, LBrace)
           closes == At(t, RBrace)
           opensTo(k) == {i \in opens : i <= k}
           closesTo(k) == {i \in closes : i <= k}
<1>0. DOMAIN t = 1..m
  OBVIOUS
<1>1. opens = {1}
  <2>1. \A k \in opens : k = 1
    <3> TAKE k \in opens
    <3>1. k \in 1..m /\ t[k] = LBrace
      BY <1>0 DEF At
    <3>2. k # m
      BY <3>1, DigitsPlain
    <3>3. k \notin 2..(m - 1)
      BY <3>1
    <3> QED BY <3>1, <3>2, <3>3
  <2>2. 1 \in opens
    BY <1>0 DEF At
  <2> QED BY <2>1, <2>2
<1>2. closes = {m}
  <2>1. \A k \in closes : k = m
    <3> TAKE k \in closes
    <3>1. k \in 1..m /\ t[k] = RBrace
      BY <1>0 DEF At
    <3>2. k # 1
      BY <3>1, DigitsPlain
    <3>3. k \notin 2..(m - 1)
      BY <3>1
    <3> QED BY <3>1, <3>2, <3>3
  <2>2. m \in closes
    BY <1>0 DEF At
  <2> QED BY <2>1, <2>2
<1> HIDE DEF opens, closes
<1>3. opensTo(m) = {1} /\ closesTo(m) = {m}
  BY <1>1, <1>2
<1>4. Cardinality(opensTo(m)) = 1 /\ Cardinality(closesTo(m)) = 1
  BY <1>3, FS_Singleton
<1> HIDE DEF opensTo, closesTo
<1>5. Cardinality(opensTo(m)) - Cardinality(closesTo(m)) = 0
  BY <1>4
<1>6. (m + 1)..Len(t) = {} /\ closes \ {m} = {} /\ m \in closes /\ 1 \in opens
  BY <1>1, <1>2
<1>7. Depth(t, m) = Cardinality(opensTo(m)) - Cardinality(closesTo(m))
  BY DEF Depth, opensTo, closesTo, opens, closes
<1> QED BY <1>5, <1>6, <1>7 DEF IsObject, opens, closes

\* A meta is an object.
LEMMA NestedIsObject ==
  ASSUME NEW h \in Hashes, NEW m \in Nat, m >= 4
  PROVE  IsObject(Nested(h, m))
<1> DEFINE t == Nested(h, m)
           opens == At(t, LBrace)
           closes == At(t, RBrace)
           opensTo(k) == {i \in opens : i <= k}
           closesTo(k) == {i \in closes : i <= k}
<1>0. /\ t \in Seq(Chars) /\ Len(t) = m /\ DOMAIN t = 1..m /\ t[1] = LBrace
      /\ t[m - 2] = LBrace /\ t[m - 1] = RBrace /\ t[m] = RBrace
      /\ \A k \in 2..(m - 3) : t[k] # LBrace /\ t[k] # RBrace
  <2>1. h # LBrace /\ h # RBrace
    BY DigitsPlain DEF Brackets
  <2> QED BY <2>1, NestedShape
<1> HIDE DEF t
<1>1. opens = {1, m - 2}
  <2>1. \A k \in opens : k = 1 \/ k = m - 2
    <3> TAKE k \in opens
    <3>1. k \in 1..m /\ t[k] = LBrace
      BY <1>0 DEF At
    <3>2. k # m /\ k # m - 1
      BY <1>0, <3>1, DigitsPlain
    <3>3. k \notin 2..(m - 3)
      BY <1>0, <3>1
    <3> QED BY <3>1, <3>2, <3>3
  <2>2. 1 \in opens /\ m - 2 \in opens
    BY <1>0 DEF At
  <2> QED BY <2>1, <2>2
<1>2. closes = {m - 1, m}
  <2>1. \A k \in closes : k = m - 1 \/ k = m
    <3> TAKE k \in closes
    <3>1. k \in 1..m /\ t[k] = RBrace
      BY <1>0 DEF At
    <3>2. k # 1 /\ k # m - 2
      BY <1>0, <3>1, DigitsPlain
    <3>3. k \notin 2..(m - 3)
      BY <1>0, <3>1
    <3> QED BY <3>1, <3>2, <3>3
  <2>2. m - 1 \in closes /\ m \in closes
    BY <1>0 DEF At
  <2> QED BY <2>1, <2>2
<1> HIDE DEF opens, closes
<1>3. /\ opensTo(m) = {1, m - 2} /\ closesTo(m) = {m - 1, m}
      /\ opensTo(m - 1) = {1, m - 2} /\ closesTo(m - 1) = {m - 1}
  BY <1>1, <1>2
<1>4. /\ Cardinality(opensTo(m)) = 2 /\ Cardinality(closesTo(m)) = 2
      /\ Cardinality(opensTo(m - 1)) = 2 /\ Cardinality(closesTo(m - 1)) = 1
  <2>1. \A a, b \in Int : a # b => Cardinality({a, b}) = 2
    <3> TAKE a, b \in Int
    <3> HAVE a # b
    <3>1. IsFiniteSet({a}) /\ Cardinality({a}) = 1
      BY FS_Singleton
    <3>2. Cardinality({a} \cup {b}) = Cardinality({a}) + 1
      BY <3>1, FS_AddElement
    <3>3. {a} \cup {b} = {a, b}
      OBVIOUS
    <3> QED BY <3>1, <3>2, <3>3
  <2>2. Cardinality({m - 1}) = 1
    BY FS_Singleton
  <2>3. 1 \in Int /\ m - 2 \in Int /\ m - 1 \in Int /\ m \in Int /\ 1 # m - 2 /\ m - 1 # m
    OBVIOUS
  <2>4. Cardinality({1, m - 2}) = 2 /\ Cardinality({m - 1, m}) = 2
    BY <2>1, <2>3
  <2> HIDE DEF opensTo, closesTo
  <2> QED BY <1>3, <2>2, <2>4
<1> HIDE DEF opensTo, closesTo
<1>5. /\ Cardinality(opensTo(m)) - Cardinality(closesTo(m)) = 0
      /\ \A k \in closes \ {m} : Cardinality(opensTo(k)) - Cardinality(closesTo(k)) > 0
  BY <1>2, <1>4
<1>6. (m + 1)..Len(t) = {} /\ m \in closes /\ 1 \in opens
  BY <1>0, <1>1, <1>2
<1>7. IsObject(t)
  <2>1. \A k : Depth(t, k) = Cardinality(opensTo(k)) - Cardinality(closesTo(k))
    BY DEF Depth, opensTo, closesTo, opens, closes
  <2> QED BY <1>5, <1>6, <2>1 DEF IsObject, opens, closes
<1> QED BY <1>7 DEF t

-----------------------------------------------------------------------------
\* The text of an answer

\* A text with its size in front.
LEMMA SizedShape ==
  ASSUME NEW t \in Seq(Chars), Len(t) \in 0..MaxInt
  PROVE  /\ Decimal(Len(t)) \in Seq(Chars) /\ Len(Decimal(Len(t))) \in 1..10
         /\ \A k \in 1..Len(Decimal(Len(t))) : Decimal(Len(t))[k] \in Digits
         /\ Sized(t) = Decimal(Len(t)) \o t
         /\ Sized(t) \in Seq(Chars) /\ Len(Sized(t)) = Len(Decimal(Len(t))) + Len(t)
<1> DEFINE m == Len(t)
           d == Decimal(m)
<1>1. d \in Seq(Digits) /\ Len(d) \in 1..10
  BY DecimalType
<1> HIDE DEF d
<1>2. d \in Seq(Chars) /\ \A k \in 1..Len(d) : d[k] \in Digits
  BY <1>1, InChars
<1>3. d \o t \in Seq(Chars) /\ Len(d \o t) = Len(d) + Len(t)
  BY <1>2, Concat
<1> QED BY <1>1, <1>2, <1>3 DEF Sized, d

\* The pieces of a line.
LEMMA LineShape ==
  ASSUME NEW e \in AllEvents,
         NEW tail, tail = IF e.data = <<>> THEN <<>> ELSE Sized(e.data)
  PROVE  /\ Sized(e.id) \in Seq(Chars) /\ Sized(e.meta) \in Seq(Chars) /\ tail \in Seq(Chars)
         /\ Line(e) = Sized(e.id) \o Sized(e.meta) \o tail \o <<EOL>>
         /\ Line(e) \in Seq(Chars)
         /\ Len(Line(e)) = Len(Sized(e.id)) + Len(Sized(e.meta)) + Len(tail) + 1
<1>1. Sized(e.id) \in Seq(Chars) /\ Sized(e.meta) \in Seq(Chars) /\ Sized(e.data) \in Seq(Chars)
  BY EventShape, SizedShape
<1>2. tail \in Seq(Chars)
  BY <1>1
<1>3. Line(e) = Sized(e.id) \o Sized(e.meta) \o tail \o <<EOL>>
  BY DEF Line
<1> DEFINE s == Sized(e.id)
           u == Sized(e.meta)
           v == <<EOL>>
<1>4. v \in Seq(Chars) /\ Len(v) = 1
  BY InChars, One
<1>5. s \in Seq(Chars) /\ u \in Seq(Chars)
  BY <1>1
<1> HIDE DEF s, u, v
<1>6. s \o u \in Seq(Chars) /\ Len(s \o u) = Len(s) + Len(u)
  BY <1>5, Concat
<1>7. s \o u \o tail \in Seq(Chars) /\ Len(s \o u \o tail) = Len(s) + Len(u) + Len(tail)
  BY <1>2, <1>6, Concat
<1>8. /\ s \o u \o tail \o v \in Seq(Chars)
      /\ Len(s \o u \o tail \o v) = Len(s) + Len(u) + Len(tail) + 1
  <2> DEFINE w == s \o u \o tail
  <2>1. w \in Seq(Chars) /\ Len(w) = Len(s) + Len(u) + Len(tail)
    BY <1>7
  <2> HIDE DEF w
  <2>2. w \o v \in Seq(Chars) /\ Len(w \o v) = Len(w) + Len(v)
    BY <1>4, <2>1, Concat
  <2> QED BY <1>4, <2>1, <2>2 DEF w
<1> QED BY <1>1, <1>2, <1>3, <1>8 DEF s, u, v

\* Two texts, one after the other.
LEMMA StandsSplit ==
  ASSUME text \in Seq(Chars), NEW s \in Seq(Chars), NEW t \in Seq(Chars), NEW p \in Nat \ {0},
         Stands(s \o t, p)
  PROVE  Stands(s, p) /\ Stands(t, p + Len(s))
<1> DEFINE st == s \o t
           ls == Len(s)
           lt == Len(t)
<1>1. /\ Len(st) = ls + lt /\ DOMAIN st = 1..(ls + lt)
      /\ \A k \in 1..ls : st[k] = s[k]
      /\ \A k \in 1..lt : st[ls + k] = t[k]
  BY Concat
<1>2. ls \in Nat /\ lt \in Nat /\ DOMAIN s = 1..ls /\ DOMAIN t = 1..lt /\ Len(text) \in Nat
  OBVIOUS
<1> HIDE DEF st, ls, lt
<1>3. p + (ls + lt) - 1 <= Len(text) /\ \A k \in 1..(ls + lt) : text[p + k - 1] = st[k]
  BY <1>1 DEF Stands, st
<1>4. p + ls - 1 <= Len(text) /\ p + ls + lt - 1 <= Len(text)
  BY <1>2, <1>3
<1>5. \A k \in 1..ls : text[p + k - 1] = s[k]
  <2> TAKE k \in 1..ls
  <2>1. k \in 1..(ls + lt)
    BY <1>2
  <2> QED BY <1>1, <1>3, <2>1
<1>6. \A k \in 1..lt : text[p + ls + k - 1] = t[k]
  <2> TAKE k \in 1..lt
  <2>1. ls + k \in 1..(ls + lt) /\ p + (ls + k) - 1 = p + ls + k - 1
    BY <1>2
  <2> QED BY <1>1, <1>3, <2>1
<1> QED BY <1>2, <1>4, <1>5, <1>6 DEF Stands, ls, lt

\* A size and what it is the size of.
LEMMA StandsSized ==
  ASSUME text \in Seq(Chars), NEW t \in Seq(Chars), Len(t) \in 0..MaxInt,
         NEW p \in Nat \ {0}, Stands(Sized(t), p)
  PROVE  Stands(Decimal(Len(t)), p) /\ Stands(t, p + Len(Decimal(Len(t))))
BY SizedShape, StandsSplit

\* Every event that is written, piece by piece.
LEMMA Pieces ==
  ASSUME WireTypeOK, TextInv, NEW i \in DOMAIN answer
  PROVE  LET e == answer[i]
             p == begins[i]
             q == p + Len(Sized(e.id))
             r == q + Len(Sized(e.meta))
             tail == IF e.data = <<>> THEN <<>> ELSE Sized(e.data)
         IN  /\ e \in AllEvents /\ p \in Nat \ {0}
             /\ Stands(Sized(e.id), p) /\ Stands(Sized(e.meta), q) /\ Stands(tail, r)
             /\ text[r + Len(tail)] = EOL /\ r + Len(tail) <= Len(text)
             /\ i + 1 \in DOMAIN begins /\ begins[i + 1] = r + Len(tail) + 1
<1> DEFINE e == answer[i]
           p == begins[i]
           s == Sized(e.id)
           u == Sized(e.meta)
           tail == IF e.data = <<>> THEN <<>> ELSE Sized(e.data)
           v == <<EOL>>
<1>1. e \in AllEvents /\ p \in Nat \ {0} /\ text \in Seq(Chars) /\ i + 1 \in DOMAIN begins
  <2>1. /\ answer \in Seq(AllEvents) /\ begins \in Seq(Nat \ {0}) /\ text \in Seq(Chars)
        /\ Len(begins) = Len(answer) + 1
    BY DEF WireTypeOK
  <2>2. i \in 1..Len(answer) /\ i \in 1..Len(begins) /\ i + 1 \in 1..Len(begins)
    BY <2>1
  <2> QED BY <2>1, <2>2
<1>2. Stands(Line(e), p) /\ begins[i + 1] = p + Len(Line(e))
  BY DEF TextInv
<1>3. /\ s \in Seq(Chars) /\ u \in Seq(Chars) /\ tail \in Seq(Chars)
      /\ Line(e) = s \o u \o tail \o v
      /\ Len(Line(e)) = Len(s) + Len(u) + Len(tail) + 1
  <2> HIDE DEF e
  <2> QED BY <1>1, LineShape
<1>4. v \in Seq(Chars) /\ Len(v) = 1 /\ v[1] = EOL /\ DOMAIN v = {1}
  BY InChars, One
<1> HIDE DEF e, p, s, u, tail, v
<1>5. s \o u \in Seq(Chars) /\ Len(s \o u) = Len(s) + Len(u)
  BY <1>3, Concat
<1>6. s \o u \o tail \in Seq(Chars) /\ Len(s \o u \o tail) = Len(s) + Len(u) + Len(tail)
  BY <1>3, <1>5, Concat
<1>7. Stands(s \o u \o tail, p) /\ Stands(v, p + (Len(s) + Len(u) + Len(tail)))
  BY <1>1, <1>2, <1>3, <1>4, <1>6, StandsSplit
<1>8. Stands(s \o u, p) /\ Stands(tail, p + (Len(s) + Len(u)))
  BY <1>1, <1>3, <1>5, <1>7, StandsSplit
<1>9. Stands(s, p) /\ Stands(u, p + Len(s))
  BY <1>1, <1>3, <1>8, StandsSplit
<1>10. Len(s) \in Nat /\ Len(u) \in Nat /\ Len(tail) \in Nat /\ p \in Nat
  BY <1>1, <1>3
<1>11. p + Len(s) + Len(u) = p + (Len(s) + Len(u))
  BY <1>10
<1>12. text[p + Len(s) + Len(u) + Len(tail)] = EOL /\ p + Len(s) + Len(u) + Len(tail) <= Len(text)
  <2> DEFINE z == p + (Len(s) + Len(u) + Len(tail))
  <2>1. z = p + Len(s) + Len(u) + Len(tail) /\ z \in Nat
    BY <1>10
  <2>2. Stands(v, z)
    BY <1>7
  <2> HIDE DEF z
  <2>3. z + 1 - 1 <= Len(text) /\ text[z + 1 - 1] = v[1]
    BY <1>4, <2>2 DEF Stands
  <2>4. z + 1 - 1 = z
    BY <2>1
  <2> QED BY <1>4, <2>1, <2>3, <2>4
<1>13. begins[i + 1] = p + Len(s) + Len(u) + Len(tail) + 1
  BY <1>2, <1>3, <1>10
<1>14. /\ e \in AllEvents /\ p \in Nat \ {0}
       /\ Stands(s, p) /\ Stands(u, p + Len(s)) /\ Stands(tail, p + Len(s) + Len(u))
       /\ text[p + Len(s) + Len(u) + Len(tail)] = EOL
       /\ p + Len(s) + Len(u) + Len(tail) <= Len(text)
       /\ i + 1 \in DOMAIN begins /\ begins[i + 1] = p + Len(s) + Len(u) + Len(tail) + 1
  BY <1>1, <1>8, <1>9, <1>11, <1>12, <1>13
<1> QED BY <1>14 DEF e, p, s, u, tail

\* The three objects of an event, and where they begin.
LEMMA Objects ==
  ASSUME NEW i
  PROVE  /\ Object(i, 0) = answer[i].id /\ Object(i, 1) = answer[i].meta
         /\ Object(i, 2) = answer[i].data
         /\ From(i, 0) = begins[i] + 0 + 0
         /\ From(i, 1) = begins[i] + Len(Sized(Object(i, 0))) + 0
         /\ From(i, 2) = begins[i] + Len(Sized(Object(i, 0))) + Len(Sized(Object(i, 1)))
         /\ \A k : Opens(i, k) = From(i, k) + Len(Decimal(Len(Object(i, k))))
BY DEF Object, From, Opens

\* An object of an event stands where the invariant says, its size in front.
LEMMA ObjectAt ==
  ASSUME WireTypeOK, TextInv, NEW i \in DOMAIN answer,
         NEW k \in 0..2, k = 2 => answer[i].data # <<>>
  PROVE  LET t == Object(i, k)
             d == Decimal(Len(t))
         IN  /\ t \in Seq(Chars) /\ Len(t) \in 0..MaxInt /\ Len(t) \in Nat
             /\ From(i, k) \in Nat \ {0} /\ Len(d) \in 1..10 /\ Opens(i, k) = From(i, k) + Len(d)
             /\ Stands(d, From(i, k)) /\ \A x \in 1..Len(d) : d[x] \in Digits
             /\ Stands(t, Opens(i, k))
             /\ k < 2 => From(i, k + 1) = Opens(i, k) + Len(t)
             /\ k = 2 => /\ text[Opens(i, k) + Len(t)] = EOL
                         /\ Opens(i, k) + Len(t) <= Len(text)
                         /\ begins[i + 1] = Opens(i, k) + Len(t) + 1
<1> DEFINE s == Object(i, 0)
           u == Object(i, 1)
           v == Object(i, 2)
           p == begins[i]
           q == p + Len(Sized(s))
           r == q + Len(Sized(u))
           tail == IF v = <<>> THEN <<>> ELSE Sized(v)
<1>1. /\ s = answer[i].id /\ u = answer[i].meta /\ v = answer[i].data
      /\ From(i, 0) = p + 0 + 0 /\ From(i, 1) = q + 0 /\ From(i, 2) = r
  BY Objects
<1> HIDE DEF s, u, v
<1>2. /\ answer[i] \in AllEvents /\ p \in Nat \ {0}
      /\ Stands(Sized(s), p) /\ Stands(Sized(u), q) /\ Stands(tail, r)
      /\ text[r + Len(tail)] = EOL /\ r + Len(tail) <= Len(text)
      /\ begins[i + 1] = r + Len(tail) + 1
  BY <1>1, Pieces
<1>3. /\ s \in Seq(Chars) /\ u \in Seq(Chars) /\ v \in Seq(Chars)
      /\ Len(s) \in 0..MaxInt /\ Len(u) \in 0..MaxInt /\ Len(v) \in 0..MaxInt
  BY <1>1, <1>2, EventShape
<1> HIDE DEF p
<1>4. \A m \in 0..MaxInt : m \in Nat
  BY Ints
<1>5. Len(Sized(s)) = Len(Decimal(Len(s))) + Len(s) /\ Len(Sized(u)) = Len(Decimal(Len(u))) + Len(u)
  BY <1>3, SizedShape
<1>6. /\ Len(Decimal(Len(s))) \in 1..10 /\ Len(Decimal(Len(u))) \in 1..10
      /\ \A x \in 1..Len(Decimal(Len(s))) : Decimal(Len(s))[x] \in Digits
      /\ \A x \in 1..Len(Decimal(Len(u))) : Decimal(Len(u))[x] \in Digits
  BY <1>3, SizedShape
<1>7. q \in Nat \ {0} /\ r \in Nat \ {0} /\ p \in Nat \ {0}
  <2>1. p \in Nat \ {0} /\ Len(s) \in Nat /\ Len(u) \in Nat
    BY <1>2, <1>3, <1>4
  <2> QED BY <2>1, <1>5, <1>6
<1> HIDE DEF q, r
<1>8. text \in Seq(Chars)
  BY DEF WireTypeOK
<1>9. CASE k = 0
  <2>1. From(i, 0) = p /\ From(i, 1) = q
    BY <1>1, <1>7
  <2>2. Stands(Decimal(Len(s)), p) /\ Stands(s, p + Len(Decimal(Len(s))))
    BY <1>2, <1>3, <1>7, <1>8, StandsSized
  <2>3. Opens(i, 0) = p + Len(Decimal(Len(s)))
    BY <2>1, Objects DEF s
  <2>4. q = Opens(i, 0) + Len(s) /\ Len(s) \in Nat
    <3>1. q = p + Len(Sized(s))
      BY DEF q
    <3> QED BY <1>3, <1>4, <1>5, <1>6, <1>7, <2>3, <3>1
  <2>5. Object(i, k) = s
    BY <1>9 DEF s
  <2> QED BY <1>3, <1>6, <1>7, <1>9, <2>1, <2>2, <2>3, <2>4, <2>5
<1>10. CASE k = 1
  <2>1. From(i, 1) = q /\ From(i, 2) = r
    BY <1>1, <1>7
  <2>2. Stands(Decimal(Len(u)), q) /\ Stands(u, q + Len(Decimal(Len(u))))
    BY <1>2, <1>3, <1>7, <1>8, StandsSized
  <2>3. Opens(i, 1) = q + Len(Decimal(Len(u)))
    BY <2>1, Objects DEF u
  <2>4. r = Opens(i, 1) + Len(u) /\ Len(u) \in Nat
    <3>1. r = q + Len(Sized(u))
      BY DEF r
    <3> QED BY <1>3, <1>4, <1>5, <1>6, <1>7, <2>3, <3>1
  <2>5. Object(i, k) = u /\ k + 1 = 2
    BY <1>10 DEF u
  <2> QED BY <1>3, <1>6, <1>7, <1>10, <2>1, <2>2, <2>3, <2>4, <2>5
<1>11. CASE k = 2
  <2>0. tail = Sized(v)
    BY <1>1, <1>11
  <2>1. From(i, 2) = r
    BY <1>1
  <2>2. Stands(Decimal(Len(v)), r) /\ Stands(v, r + Len(Decimal(Len(v))))
    BY <1>2, <1>3, <1>7, <1>8, <2>0, StandsSized
  <2>3. Opens(i, 2) = r + Len(Decimal(Len(v)))
    BY <2>1, Objects DEF v
  <2>4. /\ Len(Sized(v)) = Len(Decimal(Len(v))) + Len(v) /\ Len(Decimal(Len(v))) \in 1..10
        /\ \A x \in 1..Len(Decimal(Len(v))) : Decimal(Len(v))[x] \in Digits
    BY <1>3, SizedShape
  <2>5. Object(i, k) = v /\ Len(v) \in Nat
    BY <1>3, <1>4, <1>11 DEF v
  <2>6. Len(Decimal(Len(v))) \in Nat
    BY <2>4
  <2>7. r + Len(tail) = Opens(i, 2) + Len(v)
    BY <1>7, <2>0, <2>3, <2>4, <2>5, <2>6
  <2>8. /\ text[Opens(i, 2) + Len(v)] = EOL /\ Opens(i, 2) + Len(v) <= Len(text)
        /\ begins[i + 1] = Opens(i, 2) + Len(v) + 1
    BY <1>2, <2>7
  <2> QED BY <1>3, <1>7, <1>11, <2>1, <2>2, <2>3, <2>4, <2>5, <2>8
<1> QED BY <1>9, <1>10, <1>11

\* Without data the line ends after the meta.
LEMMA NoDataAt ==
  ASSUME WireTypeOK, TextInv, NEW i \in DOMAIN answer, answer[i].data = <<>>
  PROVE  /\ From(i, 2) \in Nat \ {0} /\ text[From(i, 2)] = EOL /\ From(i, 2) <= Len(text)
         /\ begins[i + 1] = From(i, 2) + 1
<1> DEFINE r == begins[i] + Len(Sized(answer[i].id)) + Len(Sized(answer[i].meta))
<1>1. /\ text[r + Len(<<>>)] = EOL /\ r + Len(<<>>) <= Len(text)
      /\ begins[i + 1] = r + Len(<<>>) + 1
  BY Pieces
<1>2. From(i, 2) = r
  BY Objects
<1>3. r \in Nat \ {0}
  <2> DEFINE a == Len(Sized(answer[i].id))
             b == Len(Sized(answer[i].meta))
             p == begins[i]
  <2>0. answer[i] \in AllEvents /\ p \in Nat \ {0}
    BY Pieces
  <2>1. Sized(answer[i].id) \in Seq(Chars) /\ Sized(answer[i].meta) \in Seq(Chars)
    BY <2>0, EventShape, SizedShape
  <2>2. a \in Nat /\ b \in Nat
    BY <2>1
  <2> HIDE DEF a, b, p
  <2>3. p + a + b \in Nat \ {0}
    BY <2>0, <2>2
  <2> QED BY <2>3 DEF a, b, p
<1> HIDE DEF r
<1>4. r + Len(<<>>) = r
  BY <1>3
<1> QED BY <1>1, <1>2, <1>3, <1>4

\* The next event begins in the text, or the text is over.
LEMMA BeginsNext ==
  ASSUME WireTypeOK, TextInv, NEW i \in DOMAIN answer
  PROVE  /\ i + 1 \in DOMAIN begins /\ begins[i + 1] \in Nat \ {0} /\ From(i + 1, 0) = begins[i + 1]
         /\ begins[i + 1] <= Len(text) + 1
         /\ i \in Nat \ {0} /\ i <= Len(answer)
         /\ i < Len(answer) => i + 1 \in DOMAIN answer
<1>1. /\ answer \in Seq(AllEvents) /\ begins \in Seq(Nat \ {0}) /\ Len(begins) = Len(answer) + 1
  BY DEF WireTypeOK
<1>2. /\ i \in Nat \ {0} /\ i <= Len(answer) /\ i + 1 \in DOMAIN begins
      /\ i < Len(answer) => i + 1 \in DOMAIN answer
  BY <1>1
<1>3. begins[i + 1] \in Nat \ {0}
  BY <1>1, <1>2
<1>4. From(i + 1, 0) = begins[i + 1]
  BY <1>3, Objects
<1>5. begins[i + 1] <= Len(text) + 1
  <2>1. CASE answer[i].data = <<>>
    <3>1. Len(text) \in Nat
      BY DEF WireTypeOK
    <3> QED BY <2>1, <3>1, NoDataAt
  <2>2. CASE answer[i].data # <<>>
    <3> DEFINE z == Opens(i, 2) + Len(Object(i, 2))
    <3>1. /\ z <= Len(text) /\ begins[i + 1] = z + 1
          /\ From(i, 2) \in Nat /\ Len(Object(i, 2)) \in Nat
          /\ Len(Decimal(Len(Object(i, 2)))) \in 1..10
          /\ Opens(i, 2) = From(i, 2) + Len(Decimal(Len(Object(i, 2))))
      BY <2>2, ObjectAt
    <3>2. z \in Nat
      BY <3>1
    <3>3. Len(text) \in Nat
      BY DEF WireTypeOK
    <3> HIDE DEF z
    <3> QED BY <3>1, <3>2, <3>3
  <2> QED BY <2>1, <2>2
<1> QED BY <1>2, <1>3, <1>4, <1>5

-----------------------------------------------------------------------------
\* What the reader finds in the text

\* Data that can be read is an object; of other data only an array has a brace.
LEMMA DataShape ==
  ASSUME NEW e \in AllEvents
  PROVE  /\ Whole(e) => IsObject(e.data) /\ e.data # <<>> /\ e.data[1] = LBrace
         /\ ~Whole(e) =>
              \/ /\ \A k \in 1..Len(e.data) : e.data[k] # LBrace
                 /\ e.data # <<>> => e.data[1] # LBracket
              \/ /\ Len(e.data) = 7 /\ e.data # <<>> /\ e.data[1] = LBracket /\ e.data[2] = LBrace
                 /\ \A k \in 3..5 : e.data[k] # LBrace /\ e.data[k] # RBrace
                 /\ e.data[6] = RBrace /\ e.data[7] = RBracket
<1>1. PICK h \in Hashes : e.data \in Datas(h)
  BY EventShape
<1>2. /\ h # LBrace /\ h # RBrace /\ h # LBracket
      /\ LBrace # RBrace /\ LBrace # LBracket
  BY DigitsPlain DEF Brackets
<1> DEFINE d == e.data
<1>3. CASE d = <<>>
  BY <1>3 DEF Whole
<1>4. CASE d = <<LBrace, RBrace>>
  <2>1. d \in Seq(Chars) /\ Len(d) = 2 /\ d[1] = LBrace /\ d[2] = RBrace /\ d # <<>>
    BY <1>4, InChars
  <2> HIDE DEF d
  <2>2. IsObject(d)
    <3>1. 2 \in Nat /\ 2 >= 2 /\ \A k \in 2..(2 - 1) : d[k] # LBrace /\ d[k] # RBrace
      OBVIOUS
    <3> QED BY <2>1, <3>1, PlainObject
  <2> QED BY <2>1, <2>2 DEF Whole, d
<1>5. CASE d = <<"7", "3">>
  <2>1. "7" \in Digits /\ "3" \in Digits
    <3>1. Digit[8] = "7" /\ Digit[4] = "3"
      BY DEF Digit
    <3> QED BY <3>1 DEF Digits
  <2>2. \A c \in Digits : c # LBrace /\ c # LBracket
    BY DigitsPlain DEF Brackets
  <2>3. Len(d) = 2 /\ d[1] \in Digits /\ d[2] \in Digits
    BY <1>5, <2>1
  <2>4. \A k \in 1..Len(d) : d[k] \in Digits
    BY <2>3
  <2> QED BY <2>2, <2>3, <2>4 DEF Whole
<1>6. CASE d = Fill(h, 9)
  <2>1. Len(d) = 9 /\ \A k \in 1..9 : d[k] = h
    <3> DEFINE f == Fill(h, 9)
    <3>1. Len(f) = 9 /\ \A k \in 1..9 : f[k] = h
      <4>1. 9 \in Nat
        OBVIOUS
      <4> QED BY <4>1, FillShape
    <3> HIDE DEF f
    <3>2. d = f
      BY <1>6 DEF f
    <3> QED BY <3>1, <3>2
  <2>2. d[1] # LBrace /\ d[1] # LBracket /\ \A k \in 1..Len(d) : d[k] # LBrace
    BY <1>2, <2>1
  <2> QED BY <2>2 DEF Whole
<1>7. CASE d = <<LBracket>> \o Flat(h, 5) \o <<RBracket>>
  <2> DEFINE inner == Flat(h, 5)
             back == <<RBracket>>
             all == <<LBracket>> \o inner \o back
  <2>0. 5 \in Nat /\ 5 >= 2
    OBVIOUS
  <2>1. /\ inner \in Seq(Chars) /\ Len(inner) = 5 /\ inner[1] = LBrace /\ inner[5] = RBrace
        /\ \A k \in 2..(5 - 1) : inner[k] = h
    <3> DEFINE z == 5
    <3>1. z \in Nat /\ z >= 2
      OBVIOUS
    <3> HIDE DEF z
    <3>2. /\ Flat(h, z) \in Seq(Chars) /\ Len(Flat(h, z)) = z
          /\ Flat(h, z)[1] = LBrace /\ Flat(h, z)[z] = RBrace
          /\ \A k \in 2..(z - 1) : Flat(h, z)[k] = h
      BY <3>1, FlatShape
    <3> QED BY <3>2 DEF z
  <2>2. back \in Seq(Chars) /\ Len(back) = 1 /\ back[1] = RBracket /\ LBracket \in Chars
    BY InChars, One
  <2> HIDE DEF inner, back
  <2>3. /\ all \in Seq(Chars) /\ Len(all) = 1 + Len(inner) + Len(back) /\ all[1] = LBracket
        /\ \A k \in 1..Len(inner) : all[k + 1] = inner[k]
        /\ \A k \in 1..Len(back) : all[1 + Len(inner) + k] = back[k]
    <3>1. LBracket \in Chars /\ inner \in Seq(Chars) /\ back \in Seq(Chars)
      BY <2>1, <2>2
    <3> QED BY <3>1, Enclosed
  <2>4. d = all
    BY <1>7 DEF inner, back
  <2> HIDE DEF all
  <2>5. Len(all) = 7
    BY <2>1, <2>2, <2>3
  <2>6. all[2] = LBrace /\ all[6] = RBrace /\ all[3] = h /\ all[4] = h /\ all[5] = h
    <3>1. /\ all[1 + 1] = inner[1] /\ all[2 + 1] = inner[2] /\ all[3 + 1] = inner[3]
          /\ all[4 + 1] = inner[4] /\ all[5 + 1] = inner[5]
      BY <2>1, <2>3
    <3> QED BY <2>1, <3>1
  <2>7. all[7] = RBracket
    <3>1. all[1 + Len(inner) + 1] = back[1]
      BY <2>2, <2>3
    <3> QED BY <2>1, <2>2, <3>1
  <2>8. \A k \in 3..5 : all[k] # LBrace /\ all[k] # RBrace
    BY <1>2, <2>6
  <2>9. all # <<>> /\ all[1] # LBrace
    BY <1>2, <2>3, <2>5
  <2>10. d # <<>> /\ d[1] # LBrace /\ d[1] = LBracket
    BY <2>3, <2>4, <2>9
  <2>11. ~Whole(e)
    BY <2>10 DEF Whole
  <2> QED BY <2>4, <2>5, <2>6, <2>7, <2>8, <2>10, <2>11
<1>8. CASE d \in {Nested(h, z) : z \in DataSizes}
  <2>1. PICK z \in DataSizes : d = Nested(h, z)
    BY <1>8
  <2>2. z \in Nat /\ z >= 4
    BY SizeBounds
  <2>3. IsObject(d)
    BY <2>1, <2>2, NestedIsObject
  <2>4. d \in Seq(Chars) /\ Len(d) = z /\ d[1] = LBrace
    BY <2>1, <2>2, NestedShape
  <2>5. d # <<>>
    BY <2>2, <2>4
  <2> QED BY <2>3, <2>4, <2>5 DEF Whole
<1> QED BY <1>1, <1>3, <1>4, <1>5, <1>6, <1>7, <1>8 DEF Datas

\* Whatever the reader takes an object for, id and meta are one, and so is data if it is whole.
LEMMA ObjectsAreObjects ==
  ASSUME NEW e \in AllEvents
  PROVE  /\ IsObject(e.id) /\ HasId(e.id) /\ IsObject(e.meta)
         /\ \A k \in 2..(Len(e.id) - 1) : e.id[k] # LBrace /\ e.id[k] # RBrace
         /\ e.id[Len(e.id)] = RBrace
<1>1. PICK h \in Hashes, s \in MetaSizes : e.id = Flat(h, IdSize) /\ e.meta = Nested(h, s)
  BY EventShape
<1>2. h # LBrace /\ h # RBrace
  BY DigitsPlain DEF Brackets
<1>3. IdSize \in Nat /\ IdSize >= 2 /\ s \in Nat /\ s >= 4
  BY SizeBounds
<1>4. /\ e.id \in Seq(Chars) /\ Len(e.id) = IdSize /\ e.id[1] = LBrace /\ e.id[IdSize] = RBrace
      /\ \A k \in 2..(IdSize - 1) : e.id[k] = h
  BY <1>1, <1>3, FlatShape
<1>5. IsObject(e.id)
  BY <1>2, <1>3, <1>4, PlainObject
<1>6. HasId(e.id)
  BY <1>1 DEF HasId
<1>7. IsObject(e.meta)
  BY <1>1, <1>3, NestedIsObject
<1> QED BY <1>2, <1>4, <1>5, <1>6, <1>7

\* An event without an object for data has never come to the buffer.
LEMMA NotKnown ==
  ASSUME known \in Known, NEW i \in DOMAIN answer, ~Whole(answer[i])
  PROVE  answer[i].id \notin known
BY DEF Known

\* The size in front of an object: digits, and the number atoi makes of them.
LEMMA SizeAt ==
  ASSUME WireTypeOK, TextInv, NEW i \in DOMAIN answer,
         NEW k \in 0..2, k = 2 => answer[i].data # <<>>
  PROVE  /\ From(i, k) \in Nat \ {0} /\ Opens(i, k) \in Nat /\ Opens(i, k) > From(i, k)
         /\ Opens(i, k) - From(i, k) <= 10
         /\ \A x \in From(i, k)..(Opens(i, k) - 1) : text[x] \in Digits
         /\ Atoi(SubSeq(text, From(i, k), Opens(i, k) - 1)) = Len(Object(i, k))
<1> DEFINE m == Len(Object(i, k))
           d == Decimal(m)
           p == From(i, k)
           o == Opens(i, k)
           w == Len(d)
<1>1. /\ m \in 0..MaxInt /\ m \in Nat /\ p \in Nat \ {0} /\ w \in 1..10 /\ o = p + w
      /\ Stands(d, p) /\ \A x \in 1..w : d[x] \in Digits
  BY ObjectAt
<1>2. d \in Seq(Digits) /\ w = Width(m)
  BY <1>1, DecimalType
<1>3. text \in Seq(Chars)
  BY DEF WireTypeOK
<1> HIDE DEF m, d, p, o, w
<1>4. DOMAIN d = 1..w
  BY <1>2 DEF w
<1>5. p + w - 1 <= Len(text) /\ \A x \in 1..w : text[p + x - 1] = d[x]
  BY <1>1, <1>4 DEF Stands, w
<1>6. \A x \in p..(o - 1) : text[x] \in Digits
  <2> TAKE x \in p..(o - 1)
  <2>1. x - p + 1 \in 1..w /\ p + (x - p + 1) - 1 = x
    BY <1>1
  <2> QED BY <1>1, <1>5, <2>1
<1>7. Atoi(SubSeq(text, p, o - 1)) = m
  <2> DEFINE t == SubSeq(text, p, o - 1)
             lt == Len(text)
  <2>1. lt \in Nat /\ p \in 1..lt /\ o - 1 \in 1..lt
    BY <1>1, <1>3, <1>5
  <2>2. t \in Seq(Chars) /\ Len(t) = o - 1 - p + 1 /\ \A x \in 1..(o - 1 - p + 1) : t[x] = text[p + x - 1]
    BY <1>1, <1>3, <2>1
  <2>3. o - 1 - p + 1 = w
    BY <1>1
  <2> HIDE DEF t
  <2>4. Len(t) = w /\ \A x \in 1..w : t[x] = d[x]
    BY <1>5, <2>2, <2>3
  <2>5. Atoi(t) = m
    <3>1. t \in Seq(Chars) /\ Len(t) = Width(m) /\ m \in 0..MaxInt /\ Width(m) \in Nat
      BY <1>1, <1>2, <2>2, <2>4
    <3>2. \A x \in 1..Width(m) : t[x] = Decimal(m)[x]
      BY <1>2, <2>4 DEF d
    <3>3. Len(t) >= Width(m) /\ ~(Len(t) > Width(m))
      BY <3>1
    <3> QED BY <3>1, <3>2, <3>3, AtoiOfDecimal
  <2> QED BY <2>5 DEF t
<1>8. o \in Nat /\ o > p /\ o - p <= 10
  BY <1>1
<1> QED BY <1>1, <1>6, <1>7, <1>8 DEF m, p, o

\* What SubSeq cuts out.
LEMMA Slice ==
  ASSUME text \in Seq(Chars), NEW a \in Nat \ {0}, NEW z \in Nat, a + z - 1 <= Len(text)
  PROVE  LET t == SubSeq(text, a, a + z - 1)
         IN  t \in Seq(Chars) /\ Len(t) = z /\ \A x \in 1..z : t[x] = text[a + x - 1]
<1> DEFINE t == SubSeq(text, a, a + z - 1)
           lt == Len(text)
           b == a + z - 1
<1>1. lt \in Nat /\ b \in Nat /\ b <= lt /\ b - a + 1 = z
  OBVIOUS
<1>2. CASE z = 0
  <2>1. t = <<>>
    BY <1>2
  <2> QED BY <1>2, <2>1
<1>3. CASE z > 0
  <2>1. a \in 1..lt /\ b \in 1..lt
    BY <1>1, <1>3
  <2>2. /\ SubSeq(text, a, b) \in Seq(Chars) /\ Len(SubSeq(text, a, b)) = b - a + 1
        /\ \A x \in 1..(b - a + 1) : SubSeq(text, a, b)[x] = text[a + x - 1]
    BY <2>1
  <2> QED BY <1>1, <2>2
<1> QED BY <1>2, <1>3

\* Where the event has no data that is an object, the next brace is that of the next event,
LEMMA NoBraceInTail ==
  ASSUME WireTypeOK, TextInv, NEW i \in DOMAIN answer, ~Whole(answer[i]),
         answer[i].data # <<>> => answer[i].data[1] # LBracket
  PROVE  \A x \in From(i, 2)..(begins[i + 1] - 1) : text[x] # LBrace
<1>1. EOL # LBrace /\ \A c \in Digits : c # LBrace
  BY DigitsPlain DEF Brackets
<1>2. CASE answer[i].data = <<>>
  <2>1. \A x \in From(i, 2)..(begins[i + 1] - 1) : x = From(i, 2)
    BY <1>2, NoDataAt
  <2> QED BY <1>1, <1>2, <2>1, NoDataAt
<1>3. CASE answer[i].data # <<>>
  <2> DEFINE p == From(i, 2)
             o == Opens(i, 2)
             d == answer[i].data
             m == Len(d)
  <2>1. /\ Object(i, 2) = d /\ 2 \in 0..2
    BY Objects
  <2>2. p \in Nat \ {0} /\ o \in Nat /\ \A x \in p..(o - 1) : text[x] \in Digits
    BY <1>3, <2>1, SizeAt
  <2>3. /\ m \in Nat /\ Stands(d, o) /\ text[o + m] = EOL /\ begins[i + 1] = o + m + 1
        /\ d \in Seq(Chars)
    BY <1>3, <2>1, ObjectAt
  <2>4. \A x \in 1..m : d[x] # LBrace
    <3>1. answer[i] \in AllEvents
      BY Pieces
    <3> QED BY <1>3, <3>1, DataShape
  <2>5. DOMAIN d = 1..m
    BY <2>3
  <2> HIDE DEF p, o, m
  <2>6. \A x \in 1..m : text[o + x - 1] = d[x]
    BY <2>3, <2>5 DEF Stands
  <2> HIDE DEF d
  <2>7. ASSUME NEW x \in p..(begins[i + 1] - 1) PROVE text[x] # LBrace
    <3>0. x \in p..(o - 1) \/ x = o + m \/ (x \in o..(o + m - 1))
      BY <2>2, <2>3
    <3>1. CASE x \in p..(o - 1)
      BY <1>1, <2>2, <3>1
    <3>2. CASE x = o + m
      BY <1>1, <2>3, <3>2
    <3>3. CASE x \in o..(o + m - 1)
      <4>1. x - o + 1 \in 1..m /\ o + (x - o + 1) - 1 = x
        BY <2>2, <2>3, <3>3
      <4> QED BY <2>4, <2>6, <4>1
    <3> QED BY <3>0, <3>1, <3>2, <3>3
  <2> QED BY <2>7 DEF p
<1> QED BY <1>2, <1>3

\* The array around an object has an object of seven characters.
LEMMA WidthOfSeven == Width(7) = 1
<1>1. 7 \in 0..MaxInt
  BY SmallSizes
<1>2. Width(7) \in 1..10 /\ (Width(7) = 1 \/ Power[Width(7)] <= 7)
  <2>1. \E w \in 1..10 : (w = 1 \/ Power[w] <= 7) /\ (w = 10 \/ 7 < Power[w + 1])
    <3>1. 7 < Power[1 + 1]
      BY SMT DEF Power
    <3> QED BY <3>1
  <2> QED BY <2>1 DEF Width
<1>3. \A w \in 2..10 : ~(Power[w] <= 7)
  BY SMT DEF Power
<1> QED BY <1>2, <1>3

\* or that in the array.
LEMMA ArrayAt ==
  ASSUME WireTypeOK, TextInv, NEW i \in DOMAIN answer, ~Whole(answer[i]),
         answer[i].data # <<>>, answer[i].data[1] = LBracket
  PROVE  LET p == From(i, 2)
         IN  /\ p \in Nat \ {0} /\ p + 8 <= Len(text) /\ begins[i + 1] = p + 9
             /\ text[p] # LBrace /\ text[p + 1] # LBrace /\ text[p + 2] = LBrace
             /\ Atoi(SubSeq(text, p, p + 1)) = 7
             /\ ~IsObject(SubSeq(text, p + 2, p + 2 + 7 - 1))
<1> DEFINE p == From(i, 2)
           o == Opens(i, 2)
           d == answer[i].data
<1>1. /\ Object(i, 2) = d /\ 2 \in 0..2
  BY Objects
<1>2. /\ Len(d) = 7 /\ d[1] = LBracket /\ d[2] = LBrace
      /\ \A k \in 3..5 : d[k] # LBrace /\ d[k] # RBrace
      /\ d[6] = RBrace /\ d[7] = RBracket
  <2>1. answer[i] \in AllEvents
    BY Pieces
  <2>2. LBracket # LBrace
    BY DigitsPlain
  <2>3. ~(\A k \in 1..Len(d) : d[k] # LBrace) \/ ~(d # <<>> => d[1] # LBracket)
    OBVIOUS
  <2> QED BY <2>1, <2>3, DataShape
<1>3. 7 \in 0..MaxInt
  BY SmallSizes
<1>4. /\ Len(Decimal(7)) = 1 /\ p \in Nat \ {0} /\ o = p + 1
      /\ Stands(Decimal(7), p) /\ Decimal(7)[1] \in Digits
      /\ Stands(d, o) /\ text[o + 7] = EOL /\ o + 7 <= Len(text) /\ begins[i + 1] = o + 7 + 1
      /\ d \in Seq(Chars)
  <2>1. Len(Decimal(7)) = 1
    BY <1>3, DecimalType, WidthOfSeven
  <2>2. 1 \in 1..1
    OBVIOUS
  <2>3. Len(Object(i, 2)) = 7
    BY <1>1, <1>2
  <2> DEFINE t == Object(i, 2)
             m == Len(t)
             e == Decimal(m)
  <2>4. /\ p \in Nat \ {0} /\ o = p + Len(e)
        /\ Stands(e, p) /\ \A x \in 1..Len(e) : e[x] \in Digits
        /\ Stands(t, o) /\ text[o + m] = EOL /\ o + m <= Len(text) /\ begins[i + 1] = o + m + 1
        /\ t \in Seq(Chars)
    BY <1>1, ObjectAt
  <2>5. e = Decimal(7) /\ m = 7 /\ t = d
    BY <1>1, <2>3
  <2> HIDE DEF t, m, e, p, o, d
  <2> QED BY <2>1, <2>2, <2>4, <2>5
<1>5. text \in Seq(Chars) /\ Len(text) \in Nat
  BY DEF WireTypeOK
<1>6. DOMAIN d = 1..7 /\ DOMAIN Decimal(7) = {1}
  <2>1. DOMAIN Decimal(7) = 1..1
    BY <1>3, DecimalType, WidthOfSeven
  <2>2. 1..1 = {1}
    OBVIOUS
  <2>3. d \in Seq(Chars) /\ Len(d) = 7
    BY <1>2, <1>4
  <2>4. DOMAIN d = 1..7
    <3> HIDE DEF d
    <3> QED BY <2>3
  <2> QED BY <2>1, <2>2, <2>4
<1> HIDE DEF p, o, d
<1>7. text[p] = Decimal(7)[1]
  <2>1. text[p + 1 - 1] = Decimal(7)[1]
    BY <1>4, <1>6 DEF Stands
  <2> QED BY <1>4, <2>1
<1>8. /\ text[p + 1] = d[1] /\ text[p + 2] = d[2] /\ text[p + 3] = d[3] /\ text[p + 4] = d[4]
      /\ text[p + 5] = d[5] /\ text[p + 6] = d[6] /\ text[p + 7] = d[7] /\ text[p + 8] = EOL
  <2>1. \A k \in 1..7 : text[o + k - 1] = d[k]
    BY <1>4, <1>6 DEF Stands
  <2>2. \A k \in 1..7 : o + k - 1 = p + k
    BY <1>4
  <2>3. \A k \in 1..7 : text[p + k] = d[k]
    BY <2>1, <2>2
  <2>4. o + 7 = p + 8
    BY <1>4
  <2> QED BY <1>4, <2>3, <2>4
<1>9. p + 8 <= Len(text) /\ begins[i + 1] = p + 9
  BY <1>4
<1>10. text[p] # LBrace /\ text[p + 1] # LBrace /\ text[p + 2] = LBrace
  <2>1. LBracket # LBrace /\ \A c \in Digits : c # LBrace
    BY DigitsPlain DEF Brackets
  <2> QED BY <1>2, <1>4, <1>7, <1>8, <2>1
<1>11. Atoi(SubSeq(text, p, p + 1)) = 7
  <2> DEFINE t == SubSeq(text, p, p + 2 - 1)
  <2>1. p + 2 - 1 <= Len(text) /\ 2 \in Nat
    BY <1>4, <1>5, <1>9
  <2>2. t \in Seq(Chars) /\ Len(t) = 2 /\ \A x \in 1..2 : t[x] = text[p + x - 1]
    BY <1>4, <1>5, <2>1, Slice
  <2> HIDE DEF t
  <2>3. t[1] = text[p] /\ t[2] = text[p + 1]
    <3>1. p + 1 - 1 = p /\ p + 2 - 1 = p + 1
      BY <1>4
    <3>2. t[1] = text[p + 1 - 1] /\ t[2] = text[p + 2 - 1]
      BY <2>2
    <3> QED BY <3>1, <3>2
  <2>4. LBracket \notin Digits
    BY DigitsPlain DEF Brackets
  <2>5. Width(7) \in Nat /\ Len(t) >= Width(7) /\ t[Width(7) + 1] \notin Digits
    BY <1>2, <1>8, <2>2, <2>3, <2>4, WidthOfSeven
  <2>6. \A k \in 1..Width(7) : t[k] = Decimal(7)[k]
    BY <1>7, <2>3, WidthOfSeven
  <2>7. Atoi(t) = 7
    BY <1>3, <2>2, <2>5, <2>6, AtoiOfDecimal
  <2>8. p + 2 - 1 = p + 1
    BY <1>4
  <2> QED BY <2>7, <2>8 DEF t
<1>12. ~IsObject(SubSeq(text, p + 2, p + 2 + 7 - 1))
  <2> DEFINE t == SubSeq(text, p + 2, p + 2 + 7 - 1)
  <2>1. p + 2 + 7 - 1 <= Len(text) /\ 7 \in Nat /\ p + 2 \in Nat \ {0}
    BY <1>4, <1>5, <1>9
  <2>2. t \in Seq(Chars) /\ Len(t) = 7 /\ \A x \in 1..7 : t[x] = text[p + 2 + x - 1]
    BY <1>5, <2>1, Slice
  <2> HIDE DEF t
  <2>3. \A x \in 1..6 : t[x] = text[p + x + 1] /\ p + x + 1 = p + (x + 1)
    <3> TAKE x \in 1..6
    <3>1. x \in 1..7 /\ p + 2 + x - 1 = p + x + 1 /\ p + x + 1 = p + (x + 1)
      BY <1>4
    <3> QED BY <2>2, <3>1
  <2>4. /\ t[1] = d[2] /\ t[2] = d[3] /\ t[3] = d[4] /\ t[4] = d[5] /\ t[5] = d[6] /\ t[6] = d[7]
    <3>1. /\ t[1] = text[p + (1 + 1)] /\ t[2] = text[p + (2 + 1)] /\ t[3] = text[p + (3 + 1)]
          /\ t[4] = text[p + (4 + 1)] /\ t[5] = text[p + (5 + 1)] /\ t[6] = text[p + (6 + 1)]
      BY <2>3
    <3> QED BY <1>8, <3>1
  <2>5. /\ 5 \in Nat /\ 5 >= 2 /\ 5 < Len(t)
    BY <2>2
  <2>6. t[1] = LBrace /\ t[5] = RBrace /\ t[5 + 1] # EOL
    <3>1. RBracket # EOL
      BY DigitsPlain
    <3> QED BY <1>2, <2>4, <3>1
  <2>7. \A k \in 2..(5 - 1) : t[k] # LBrace /\ t[k] # RBrace
    BY <1>2, <2>4
  <2>8. ~IsObject(t)
    BY <2>2, <2>5, <2>6, <2>7, ObjectEnds
  <2> QED BY <2>8 DEF t
<1> QED BY <1>4, <1>9, <1>10, <1>11, <1>12 DEF p

\* An object of a text, character by character, and what follows an id or a meta: a digit.
LEMMA Follows ==
  ASSUME WireTypeOK, TextInv, NEW i \in DOMAIN answer, NEW k \in 0..1
  PROVE  LET t == Object(i, k)
             o == Opens(i, k)
             m == Len(t)
         IN  /\ o \in Nat \ {0} /\ m \in Nat /\ t \in Seq(Chars) /\ o + m = From(i, k + 1)
             /\ \A x \in 1..m : text[o + x - 1] = t[x]
             /\ o + m - 1 <= Len(text)
<1> DEFINE t == Object(i, k)
           o == Opens(i, k)
           m == Len(t)
<1>1. /\ t \in Seq(Chars) /\ m \in Nat /\ Stands(t, o) /\ From(i, k + 1) = o + m
      /\ From(i, k) \in Nat \ {0} /\ o \in Nat /\ o > From(i, k)
  <2>1. k \in 0..2 /\ k < 2 /\ (k = 2 => answer[i].data # <<>>)
    OBVIOUS
  <2> QED BY <2>1, ObjectAt, SizeAt
<1>2. DOMAIN t = 1..m
  BY <1>1
<1> HIDE DEF t, o, m
<1>3. o + m - 1 <= Len(text) /\ \A x \in 1..m : text[o + x - 1] = t[x]
  BY <1>1, <1>2 DEF Stands, m
<1>4. o \in Nat \ {0}
  BY <1>1
<1> QED BY <1>1, <1>3, <1>4 DEF t, o, m

\* A text that begins where an id does is an object only if it is the id.
LEMMA AstrayText ==
  ASSUME WireTypeOK, TextInv, NEW i \in DOMAIN answer, NEW z \in Nat,
         Opens(i, 0) + z - 1 <= Len(text),
         IsObject(SubSeq(text, Opens(i, 0), Opens(i, 0) + z - 1))
  PROVE  z = IdSize
<1> DEFINE o == Opens(i, 0)
           d == answer[i].id
           t == SubSeq(text, o, o + z - 1)
<1>1. answer[i] \in AllEvents /\ text \in Seq(Chars)
  BY Pieces DEF WireTypeOK
<1>2. Object(i, 0) = d /\ 0 \in 0..1
  BY Objects
<1>3. /\ Len(d) = IdSize /\ d[1] = LBrace /\ d[IdSize] = RBrace
      /\ \A k \in 2..(IdSize - 1) : d[k] # LBrace /\ d[k] # RBrace
  BY <1>1, EventShape, ObjectsAreObjects
<1>4. /\ o \in Nat \ {0} /\ o + IdSize = From(i, 0 + 1) /\ \A x \in 1..IdSize : text[o + x - 1] = d[x]
  <2> DEFINE u == Object(i, 0)
             m == Len(u)
  <2>1. o \in Nat \ {0} /\ o + m = From(i, 0 + 1) /\ \A x \in 1..m : text[o + x - 1] = u[x]
    BY <1>2, Follows
  <2>2. u = d /\ m = IdSize
    BY <1>2, <1>3
  <2> HIDE DEF u, m, o, d
  <2> QED BY <2>1, <2>2
<1>5. t \in Seq(Chars) /\ Len(t) = z /\ \A x \in 1..z : t[x] = text[o + x - 1]
  <2> HIDE DEF o
  <2> QED BY <1>1, <1>4, Slice DEF o
<1>6. IsObject(t)
  OBVIOUS
<1>7. IdSize \in Nat /\ IdSize >= 3
  BY SizeBounds
<1>8. LBrace # RBrace
  BY DigitsPlain
<1> HIDE DEF o, d, t
<1>9. CASE z < IdSize
  <2>1. \A x \in 1..z : t[x] = d[x] /\ d[x] # RBrace
    <3> TAKE x \in 1..z
    <3>1. x \in 1..IdSize /\ (x = 1 \/ x \in 2..(IdSize - 1))
      BY <1>7, <1>9
    <3> QED BY <1>3, <1>4, <1>5, <1>8, <3>1
  <2>2. \A x \in 1..Len(t) : t[x] # RBrace
    BY <1>5, <2>1
  <2> QED BY <1>5, <1>6, <2>2, NoClose
<1>10. CASE z > IdSize
  <2>1. \A x \in 1..IdSize : t[x] = d[x]
    <3> TAKE x \in 1..IdSize
    <3>1. x \in 1..z
      BY <1>7, <1>10
    <3> QED BY <1>4, <1>5, <3>1
  <2>2. t[IdSize + 1] \in Digits
    <3>1. IdSize + 1 \in 1..z /\ o + (IdSize + 1) - 1 = o + IdSize
      BY <1>4, <1>7, <1>10
    <3>2. t[IdSize + 1] = text[From(i, 1)]
      BY <1>4, <1>5, <3>1
    <3>3. text[From(i, 1)] \in Digits
      <4>1. /\ From(i, 1) \in Nat \ {0} /\ Opens(i, 1) \in Nat /\ Opens(i, 1) > From(i, 1)
            /\ \A x \in From(i, 1)..(Opens(i, 1) - 1) : text[x] \in Digits
        BY SizeAt
      <4>2. From(i, 1) \in From(i, 1)..(Opens(i, 1) - 1)
        BY <4>1
      <4> QED BY <4>1, <4>2
    <3> QED BY <3>2, <3>3
  <2>3. t[IdSize + 1] # EOL
    BY <2>2, DigitsPlain
  <2>4. /\ t[1] = LBrace /\ t[IdSize] = RBrace
        /\ \A k \in 2..(IdSize - 1) : t[k] # LBrace /\ t[k] # RBrace
    <3>1. 1 \in 1..IdSize /\ IdSize \in 1..IdSize /\ \A k \in 2..(IdSize - 1) : k \in 1..IdSize
      BY <1>7
    <3> QED BY <1>3, <2>1, <3>1
  <2>5. IdSize >= 2 /\ IdSize < Len(t)
    BY <1>5, <1>7, <1>10
  <2> QED BY <1>5, <1>6, <1>7, <2>3, <2>4, <2>5, ObjectEnds
<1> QED BY <1>7, <1>9, <1>10

\* A text that begins in a meta, at one of its two braces, has no id.
LEMMA LostText ==
  ASSUME WireTypeOK, TextInv, NEW i \in DOMAIN answer, NEW z \in Nat,
         NEW a \in {Opens(i, 1), Opens(i, 1) + Len(Object(i, 1)) - 3}, a + z - 1 <= Len(text)
  PROVE  ~HasId(SubSeq(text, a, a + z - 1))
<1> DEFINE o == Opens(i, 1)
           d == answer[i].meta
           t == SubSeq(text, a, a + z - 1)
<1>1. answer[i] \in AllEvents /\ text \in Seq(Chars)
  BY Pieces DEF WireTypeOK
<1>2. PICK h \in Hashes, s \in MetaSizes : d = Nested(h, s)
  BY <1>1, EventShape
<1>3. s \in Nat /\ s >= 4
  BY SizeBounds
<1>4. /\ Len(d) = s /\ \A k \in 2..(s - 3) : d[k] = h
      /\ d[s - 2] = LBrace /\ d[s - 1] = RBrace
  <2> DEFINE f == Nested(h, s)
  <2>1. /\ Len(f) = s /\ \A k \in 2..(s - 3) : f[k] = h
        /\ f[s - 2] = LBrace /\ f[s - 1] = RBrace
    BY <1>3, NestedShape
  <2>2. d = f
    BY <1>2
  <2> HIDE DEF f, d
  <2> QED BY <2>1, <2>2
<1>5. Object(i, 1) = d /\ 1 \in 0..1
  BY Objects
<1>6. /\ o \in Nat \ {0} /\ \A x \in 1..s : text[o + x - 1] = d[x]
  <2> DEFINE u == Object(i, 1)
             m == Len(u)
  <2>1. o \in Nat \ {0} /\ \A x \in 1..m : text[o + x - 1] = u[x]
    BY <1>5, Follows
  <2>2. u = d /\ m = s
    BY <1>4, <1>5
  <2> HIDE DEF u, m, o, d
  <2> QED BY <2>1, <2>2
<1>7. a \in Nat \ {0} /\ (a = o \/ a = o + s - 3)
  <2>1. Len(Object(i, 1)) = s
    BY <1>4, <1>5
  <2>2. a = o \/ a = o + s - 3
    BY <2>1
  <2> HIDE DEF o
  <2> QED BY <1>3, <1>6, <2>2
<1>8. t \in Seq(Chars) /\ Len(t) = z /\ \A x \in 1..z : t[x] = text[a + x - 1]
  BY <1>1, <1>7, Slice
<1>9. IdSize \in Nat /\ IdSize >= 3
  BY SizeBounds
<1> HIDE DEF o, d, t
<1>10. SUFFICES ASSUME NEW g \in Hashes, t = Flat(g, IdSize) PROVE FALSE
  BY DEF HasId, t
<1>11. /\ Len(t) = IdSize /\ t[IdSize] = RBrace /\ \A k \in 2..(IdSize - 1) : t[k] = g
  BY <1>9, <1>10, FlatShape
<1>12. z = IdSize
  BY <1>8, <1>11
<1>13. /\ g # LBrace /\ g # RBrace /\ h # LBrace /\ h # RBrace /\ LBrace # RBrace
  BY DigitsPlain DEF Brackets
<1>14. CASE a = o
  <2>1. \A x \in 1..IdSize : x \in 1..s => t[x] = d[x]
    BY <1>6, <1>8, <1>12, <1>14
  <2>2. CASE IdSize >= s - 2
    <3>1. s - 2 \in 1..IdSize /\ s - 2 \in 1..s /\ (s - 2 = IdSize \/ s - 2 \in 2..(IdSize - 1))
      BY <1>3, <1>9, <2>2
    <3>2. t[s - 2] = LBrace
      BY <1>4, <2>1, <3>1
    <3> QED BY <1>11, <1>13, <3>1, <3>2
  <2>3. CASE IdSize < s - 2
    <3>1. IdSize \in 1..IdSize /\ IdSize \in 1..s /\ IdSize \in 2..(s - 3)
      BY <1>3, <1>9, <2>3
    <3>2. t[IdSize] = h
      BY <1>4, <2>1, <3>1
    <3> QED BY <1>11, <1>13, <3>2
  <2> QED BY <1>3, <1>9, <2>2, <2>3
<1>15. CASE a = o + s - 3
  <2>1. 2 \in 1..z /\ 2 \in 2..(IdSize - 1)
    BY <1>9, <1>12
  <2>2. t[2] = text[a + 2 - 1]
    BY <1>8, <2>1
  <2>3. s - 1 \in 1..s /\ o + (s - 1) - 1 = a + 2 - 1
    BY <1>3, <1>6, <1>15
  <2>4. text[a + 2 - 1] = d[s - 1]
    BY <1>6, <2>3
  <2> QED BY <1>4, <1>11, <1>13, <2>1, <2>2, <2>4
<1> QED BY <1>7, <1>14, <1>15

-----------------------------------------------------------------------------
\* Events in order

\* Nothing is in order.
LEMMA InOrderNone == InOrder(<<>>, {})
<1> DEFINE f == [p \in {} |-> p]
<1>1. DOMAIN <<>> = {}
  OBVIOUS
<1>2. f \in [DOMAIN <<>> -> {}]
  BY <1>1
<1> HIDE DEF f
<1> QED BY <1>1, <1>2 DEF InOrder

\* One event more, behind all others.
LEMMA InOrderAppend ==
  ASSUME NEW S, NEW es \in Seq(S), NEW m \in Nat, NEW I \in SUBSET (1..m), InOrder(es, I),
         answer[m + 1] \in S
  PROVE  InOrder(Append(es, answer[m + 1]), I \cup {m + 1})
<1> DEFINE l == Len(es)
           all == Append(es, answer[m + 1])
           J == I \cup {m + 1}
<1>1. PICK f \in [DOMAIN es -> I] :
         /\ \A p, q \in DOMAIN es : p < q => f[p] < f[q]
         /\ \A i \in I : \E p \in DOMAIN es : f[p] = i
         /\ \A p \in DOMAIN es : es[p] = answer[f[p]]
  BY DEF InOrder
<1>2. /\ l \in Nat /\ DOMAIN es = 1..l /\ DOMAIN all = 1..(l + 1)
      /\ \A p \in 1..l : all[p] = es[p]
      /\ all[l + 1] = answer[m + 1]
  OBVIOUS
<1> DEFINE g == [p \in 1..(l + 1) |-> IF p = l + 1 THEN m + 1 ELSE f[p]]
<1> HIDE DEF l, all
<1>3. \A p \in 1..l : f[p] \in I /\ f[p] \in 1..m /\ p # l + 1 /\ p \in 1..(l + 1)
  <2> TAKE p \in 1..l
  <2>1. f[p] \in I
    BY <1>1, <1>2
  <2>2. p # l + 1 /\ p \in 1..(l + 1)
    BY <1>2
  <2> QED BY <2>1, <2>2
<1>4. (\A p \in 1..l : g[p] = f[p]) /\ g[l + 1] = m + 1 /\ l + 1 \in 1..(l + 1)
  BY <1>2, <1>3
<1>5. g \in [DOMAIN all -> J]
  BY <1>2, <1>3
<1> HIDE DEF g
<1>6. ASSUME NEW p \in DOMAIN all, NEW q \in DOMAIN all, p < q PROVE g[p] < g[q]
  <2>1. p \in 1..l
    BY <1>2, <1>6
  <2>2. q \in 1..l \/ q = l + 1
    BY <1>2
  <2>3. CASE q \in 1..l
    BY <1>1, <1>2, <1>4, <1>6, <2>1, <2>3
  <2>4. CASE q = l + 1
    BY <1>3, <1>4, <2>1, <2>4
  <2> QED BY <2>2, <2>3, <2>4
<1>7. ASSUME NEW i \in J PROVE \E p \in DOMAIN all : g[p] = i
  <2>1. CASE i = m + 1
    BY <1>2, <1>4, <2>1
  <2>2. CASE i \in I
    <3>1. PICK p \in DOMAIN es : f[p] = i
      BY <1>1, <2>2
    <3> QED BY <1>2, <1>3, <1>4, <3>1
  <2> QED BY <2>1, <2>2
<1>8. ASSUME NEW p \in DOMAIN all PROVE all[p] = answer[g[p]]
  <2>1. p \in 1..l \/ p = l + 1
    BY <1>2
  <2>2. CASE p \in 1..l
    BY <1>1, <1>2, <1>4, <2>2
  <2>3. CASE p = l + 1
    BY <1>2, <1>4, <2>3
  <2> QED BY <2>1, <2>2, <2>3
<1>9. InOrder(all, J)
  BY <1>5, <1>6, <1>7, <1>8 DEF InOrder
<1> QED BY <1>9 DEF all

\* What is new up to the next event.
LEMMA NewNext ==
  ASSUME NEW m \in Nat
  PROVE  /\ New(m) \in SUBSET (1..m)
         /\ Whole(answer[m + 1]) /\ answer[m + 1].id \notin known => New(m + 1) = New(m) \cup {m + 1}
         /\ ~Whole(answer[m + 1]) \/ answer[m + 1].id \in known => New(m + 1) = New(m)
<1>1. \A i : i \in 1..(m + 1) <=> i \in 1..m \/ i = m + 1
  OBVIOUS
<1>2. m + 1 \notin 1..m
  OBVIOUS
<1> QED BY <1>1, <1>2 DEF New

\* What a step that leaves the text alone does not change.
LEMMA SameText ==
  ASSUME UNCHANGED writerVars
  PROVE  /\ answer' = answer /\ text' = text /\ begins' = begins /\ known' = known
         /\ \A i, k : /\ Object(i, k)' = Object(i, k) /\ From(i, k)' = From(i, k)
                      /\ Opens(i, k)' = Opens(i, k)
         /\ \A m : New(m)' = New(m)
         /\ \A es, I : InOrder(es, I)' = InOrder(es, I)
<1>1. answer' = answer /\ text' = text /\ begins' = begins /\ known' = known
  BY DEF writerVars
<1>2. \A i, k : Object(i, k)' = Object(i, k)
  BY <1>1 DEF Object
<1>3. \A i, k : From(i, k)' = From(i, k)
  BY <1>1 DEF From, Object
<1>4. \A i, k : Opens(i, k)' = Opens(i, k)
  BY <1>1 DEF Opens, From, Object
<1>5. \A m : New(m)' = New(m)
  BY <1>1 DEF New
<1>6. \A es, I : InOrder(es, I)' = InOrder(es, I)
  BY <1>1 DEF InOrder
<1> QED BY <1>1, <1>2, <1>3, <1>4, <1>5, <1>6

\* Reading changes nothing about the text.
LEMMA SameTextInv ==
  ASSUME TextInv, UNCHANGED writerVars,
         phase' = "begin" => phase = "begin",
         phase' \in {"begin", "done"} \/ text # <<LBrace, RBrace>> \/ answer # <<>>,
         phase # "write"
  PROVE  TextInv'
<1>1. answer' = answer /\ text' = text /\ begins' = begins /\ known' = known
  BY SameText
<1>2. \A i \in DOMAIN answer : Stands(Line(answer[i]), begins[i])' = Stands(Line(answer[i]), begins[i])
  BY <1>1 DEF Stands
<1>3. (known \in Known)' = (known \in Known)
  BY <1>1 DEF Known
<1> QED BY <1>1, <1>2, <1>3 DEF TextInv

-----------------------------------------------------------------------------
\* The type invariant

\* Types at the beginning.
LEMMA WireTypeInit == WireInit => WireTypeOK
<1> SUFFICES ASSUME WireInit PROVE WireTypeOK
  OBVIOUS
<1>1. answer \in Seq(AllEvents) /\ text \in Seq(Chars) /\ event \in Seq(Seq(Chars))
  BY DEF WireInit
<1>2. json_temp \in Seq(Chars) /\ added \in Seq([id : Seq(Chars), meta : Seq(Chars), data : Seq(Chars)])
  BY DEF WireInit
<1>3. begins \in Seq(Nat \ {0}) /\ Len(begins) = Len(answer) + 1
  BY DEF WireInit
<1>4. /\ phase \in {"write", "begin", "read", "parse", "object", "done", "thrown", "undefined"}
      /\ j \in Nat \ {0} /\ n \in Nat \ {0} /\ size \in Nat
      /\ index_object \in 0..2 /\ jump \in BOOLEAN /\ index_object = 0
  <2>1. /\ phase = "write" /\ j = 1 /\ n = 1 /\ size = 0 /\ index_object = 0 /\ jump = FALSE
    BY DEF WireInit
  <2>2. jump \in BOOLEAN
    BY <2>1
  <2>3. j \in Nat \ {0} /\ n \in Nat \ {0} /\ size \in Nat /\ index_object \in 0..2
    <3>1. j = 1 /\ n = 1 /\ size = 0 /\ index_object = 0
      BY <2>1
    <3> QED BY <3>1
  <2> QED BY <2>1, <2>2, <2>3
<1> QED BY <1>1, <1>2, <1>3, <1>4 DEF WireTypeOK

\* One text more.
LEMMA AppendedTo ==
  ASSUME NEW S, NEW s \in Seq(S), NEW b \in S
  PROVE  /\ Append(s, b) \in Seq(S) /\ Len(Append(s, b)) = Len(s) + 1
         /\ \A x \in 1..Len(s) : Append(s, b)[x] = s[x]
         /\ Append(s, b)[Len(s) + 1] = b
BY AppendProperties

\* Types after a step past an object.
LEMMA AdvanceType ==
  ASSUME WireTypeOK, NEW skip \in 0..1, Advance(skip)
  PROVE  /\ j' \in Nat \ {0} /\ n' \in Nat \ {0} /\ size' \in Nat /\ phase' = "read"
         /\ json_temp' \in Seq(Chars)
         /\ answer' \in Seq(AllEvents) /\ text' \in Seq(Chars)
         /\ begins' \in Seq(Nat \ {0}) /\ Len(begins') = Len(answer') + 1
BY DEF WireTypeOK, Advance, writerVars

\* Types after any step.
LEMMA WireTypeNext == WireTypeOK /\ [WireNext]_wireVars => WireTypeOK'
<1> SUFFICES ASSUME WireTypeOK, [WireNext]_wireVars PROVE WireTypeOK'
  OBVIOUS
<1> DEFINE Phases == {"write", "begin", "read", "parse", "object", "done", "thrown", "undefined"}
           Texts == Seq(Chars)
           Added == [id : Texts, meta : Texts, data : Texts]
<1>0. /\ answer \in Seq(AllEvents) /\ text \in Texts
      /\ begins \in Seq(Nat \ {0}) /\ Len(begins) = Len(answer) + 1
      /\ phase \in Phases
      /\ j \in Nat \ {0} /\ n \in Nat \ {0} /\ size \in Nat
      /\ index_object \in 0..2 /\ jump \in BOOLEAN
      /\ event \in Seq(Texts) /\ json_temp \in Texts
      /\ index_object > 0 /\ ~jump => Len(event) = index_object
      /\ added \in Seq(Added)
  BY DEF WireTypeOK
<1>1. CASE WriteLine
  <2>1. PICK h \in Hashes : \E e \in Events(h) : answer' = Append(answer, e) /\ text' = text \o Line(e)
    BY <1>1 DEF WriteLine
  <2>0. PICK e \in Events(h) : answer' = Append(answer, e) /\ text' = text \o Line(e)
    BY <2>1
  <2>2. begins' = Append(begins, Len(text') + 1)
    BY <1>1 DEF WriteLine
  <2>3. e \in AllEvents
    BY DEF AllEvents
  <2>4. answer' \in Seq(AllEvents) /\ Len(answer') = Len(answer) + 1
    BY <1>0, <2>0, <2>3
  <2>5. text' \in Texts
    <3>1. Line(e) \in Texts
      BY <2>3, LineShape
    <3> QED BY <1>0, <2>0, <3>1, Concat
  <2>6. begins' \in Seq(Nat \ {0}) /\ Len(begins') = Len(begins) + 1
    <3>1. Len(text') + 1 \in Nat \ {0}
      BY <2>5
    <3> QED BY <1>0, <2>2, <3>1
  <2> QED BY <1>0, <1>1, <2>4, <2>5, <2>6 DEF WriteLine, WireTypeOK, eventVars
<1>2. CASE Reply
  <2>1. <<LBrace, RBrace>> \in Texts
    BY InChars
  <2>2. text' \in Texts
    BY <1>0, <1>2, <2>1 DEF Reply
  <2> QED BY <1>0, <1>2, <2>2 DEF Reply, WireTypeOK, eventVars
<1>3. CASE Begin
  BY <1>0, <1>3 DEF Begin, WireTypeOK, writerVars, eventVars
<1>4. CASE Find
  <2>1. Atoi(SubSeq(text, n, j' - 1)) \in Nat
    BY AtoiType
  <2>2. j' \in Nat \ {0} /\ size' \in Nat /\ phase' \in Phases
    <3>1. Len(text) \in Nat /\ j' \in j..Len(text)
      BY <1>0, <1>4 DEF Find
    <3>2. size' = size \/ size' = Atoi(SubSeq(text, n, j' - 1))
      BY <1>4 DEF Find
    <3>3. phase' \in Phases
      BY <1>4 DEF Find
    <3> QED BY <1>0, <2>1, <3>1, <3>2, <3>3
  <2> QED BY <1>0, <1>4, <2>2 DEF Find, WireTypeOK, writerVars, eventVars
<1>5. CASE End
  BY <1>0, <1>5 DEF End, WireTypeOK, writerVars, eventVars
<1>6. CASE Parse
  <2>1. json_temp' \in Texts
    <3>1. json_temp' = json_temp \/ (j + size - 1 <= Len(text) /\ json_temp' = SubSeq(text, j, j + size - 1))
      BY <1>6 DEF Parse
    <3> QED BY <1>0, <3>1, Slice
  <2>2. phase' \in Phases
    BY <1>6 DEF Parse
  <2> QED BY <1>0, <1>6, <2>1, <2>2 DEF Parse, WireTypeOK, writerVars, eventVars
<1>7. CASE ReadId
  <2>1. Advance(0) /\ index_object' = 1 /\ event' = <<json_temp>> /\ jump' \in BOOLEAN /\ added' = added
    BY <1>7 DEF ReadId
  <2>2. event' \in Seq(Texts) /\ Len(event') = 1
    BY <1>0, <2>1
  <2> QED BY <1>0, <2>1, <2>2, AdvanceType DEF WireTypeOK
<1>8. CASE ReadMeta
  <2>1. /\ Advance(0) /\ index_object = 1 /\ index_object' = 2 /\ jump' = jump /\ added' = added
        /\ event' = IF jump THEN event ELSE Append(event, json_temp)
    BY <1>8 DEF ReadMeta
  <2>2. event' \in Seq(Texts) /\ (~jump => Len(event') = 2)
    <3> HIDE DEF Texts
    <3>1. CASE jump
      BY <1>0, <2>1, <3>1
    <3>2. CASE ~jump
      <4>1. event' = Append(event, json_temp)
        BY <2>1, <3>2
      <4>5. Len(event) = 1
        BY <1>0, <2>1, <3>2
      <4>2. event \in Seq(Texts) /\ json_temp \in Texts
        BY <1>0
      <4>3. Append(event, json_temp) \in Seq(Texts) /\ Len(Append(event, json_temp)) = 2
        <5>1. Append(event, json_temp) \in Seq(Texts) /\ Len(Append(event, json_temp)) = Len(event) + 1
          BY <4>2, AppendedTo
        <5>2. Len(event) + 1 = 2
          BY <4>5
        <5> QED BY <5>1, <5>2
      <4> QED BY <4>1, <4>3
    <3> QED BY <1>0, <3>1, <3>2
  <2> QED BY <1>0, <2>1, <2>2, AdvanceType DEF WireTypeOK
<1>9. CASE ReadData
  <2>1. /\ Advance(1) /\ index_object = 2 /\ index_object' = 0 /\ jump' = FALSE /\ event' = event
        /\ added' = IF jump THEN added
                    ELSE Append(added, [id |-> event[1], meta |-> event[2], data |-> json_temp])
    BY <1>9 DEF ReadData
  <2>2. added' \in Seq(Added)
    <3>1. CASE jump
      BY <1>0, <2>1, <3>1
    <3>2. CASE ~jump
      <4>1. Len(event) = 2
        BY <1>0, <2>1, <3>2
      <4>2. event[1] \in Texts /\ event[2] \in Texts
        <5> HIDE DEF Texts
        <5>1. event \in Seq(Texts)
          BY <1>0
        <5> QED BY <4>1, <5>1
      <4> DEFINE x == [id |-> event[1], meta |-> event[2], data |-> json_temp]
      <4>3. x \in Added
        BY <1>0, <4>2
      <4>4. added' = Append(added, x)
        BY <2>1, <3>2
      <4> HIDE DEF x, Added
      <4> QED BY <1>0, <4>3, <4>4
    <3> QED BY <1>0, <3>1, <3>2
  <2>3. index_object' \in 0..2 /\ jump' \in BOOLEAN /\ ~(index_object' > 0)
    <3>1. index_object' = 0
      BY <2>1
    <3>2. index_object' \in 0..2 /\ ~(index_object' > 0)
      BY <3>1
    <3>3. jump' \in BOOLEAN
      BY <2>1
    <3> QED BY <3>2, <3>3
  <2>4. event' \in Seq(Texts)
    BY <1>0, <2>1
  <2>5. /\ j' \in Nat \ {0} /\ n' \in Nat \ {0} /\ size' \in Nat /\ phase' \in Phases
        /\ json_temp' \in Texts
        /\ answer' \in Seq(AllEvents) /\ text' \in Texts
        /\ begins' \in Seq(Nat \ {0}) /\ Len(begins') = Len(answer') + 1
    <3>1. Advance(1) /\ 1 \in 0..1
      BY <2>1
    <3> QED BY <3>1, AdvanceType
  <2> QED BY <2>2, <2>3, <2>4, <2>5 DEF WireTypeOK
<1>10. CASE UNCHANGED wireVars
  BY <1>0, <1>10 DEF wireVars, writerVars, eventVars, WireTypeOK
<1> QED BY <1>1, <1>2, <1>3, <1>4, <1>5, <1>6, <1>7, <1>8, <1>9, <1>10 DEF WireNext

-----------------------------------------------------------------------------
\* The writer keeps the text invariant

\* Events and where they are.
LEMMA Lines ==
  ASSUME WireTypeOK, NEW i \in DOMAIN answer
  PROVE  /\ answer[i] \in AllEvents /\ Line(answer[i]) \in Seq(Chars) /\ begins[i] \in Nat \ {0}
         /\ i \in 1..Len(answer) /\ i + 1 \in 1..(Len(answer) + 1)
<1>1. answer \in Seq(AllEvents) /\ begins \in Seq(Nat \ {0}) /\ Len(begins) = Len(answer) + 1
  BY DEF WireTypeOK
<1>2. answer[i] \in AllEvents /\ i \in 1..Len(answer) /\ i + 1 \in 1..(Len(answer) + 1)
  BY <1>1
<1>3. begins[i] \in Nat \ {0}
  BY <1>1, <1>2
<1>4. Line(answer[i]) \in Seq(Chars)
  BY <1>2, LineShape
<1> QED BY <1>2, <1>3, <1>4

\* A line more keeps the text as the invariant has it.
LEMMA WriteText ==
  ASSUME WireTypeOK, TextInv, WriteLine
  PROVE  TextInv'
<1>1. PICK h \in Hashes : \E e \in Events(h) : answer' = Append(answer, e) /\ text' = text \o Line(e)
  BY DEF WriteLine
<1>2. PICK e \in Events(h) : answer' = Append(answer, e) /\ text' = text \o Line(e)
  BY <1>1
<1>3. begins' = Append(begins, Len(text') + 1) /\ phase = "write" /\ phase' = "write" /\ known' = known
  BY DEF WriteLine
<1> DEFINE la == Len(answer)
           lt == Len(text)
           line == Line(e)
           ll == Len(line)
<1>4. e \in AllEvents /\ line \in Seq(Chars)
  <2>1. e \in AllEvents
    BY DEF AllEvents
  <2> QED BY <2>1, LineShape
<1>5. /\ answer \in Seq(AllEvents) /\ text \in Seq(Chars) /\ begins \in Seq(Nat \ {0})
      /\ Len(begins) = la + 1 /\ la \in Nat /\ lt \in Nat /\ ll \in Nat
  BY <1>4 DEF WireTypeOK
<1>6. /\ DOMAIN answer = 1..la /\ DOMAIN answer' = 1..(la + 1) /\ Len(answer') = la + 1
      /\ \A i \in 1..la : answer'[i] = answer[i]
      /\ answer'[la + 1] = e
  BY <1>2, <1>4, <1>5
<1> HIDE DEF line
<1>7. /\ Len(text') = lt + ll
      /\ \A k \in 1..lt : text'[k] = text[k]
      /\ \A k \in 1..ll : text'[lt + k] = line[k]
  BY <1>2, <1>4, <1>5, Concat DEF line
<1> HIDE DEF lt, ll
<1>8. /\ Len(begins') = la + 2 /\ \A i \in 1..(la + 1) : begins'[i] = begins[i]
      /\ begins'[la + 2] = Len(text') + 1
  <2>1. Len(text') + 1 \in Nat \ {0}
    BY <1>5, <1>7
  <2> HIDE DEF la
  <2> QED BY <1>3, <1>5, <2>1
<1> HIDE DEF la
<1>9. begins[la + 1] = lt + 1
  BY <1>3, <1>5 DEF TextInv, lt
<1>10. begins'[1] = 1
  BY <1>5, <1>8 DEF TextInv
<1>11. ASSUME NEW i \in 1..(la + 1)
       PROVE  /\ Stands(Line(answer[i]), begins[i])'
              /\ begins'[i + 1] = begins'[i] + Len(Line(answer'[i]))
  <2>1. CASE i \in 1..la
    <3> DEFINE l == Line(answer[i])
               p == begins[i]
    <3>1. l \in Seq(Chars) /\ p \in Nat \ {0}
      BY <1>6, <2>1, Lines
    <3>2. Stands(l, p) /\ begins[i + 1] = p + Len(l)
      BY <1>6, <2>1 DEF TextInv
    <3>3. begins'[i] = p /\ begins'[i + 1] = begins[i + 1] /\ answer'[i] = answer[i]
      <4>1. i \in 1..(la + 1) /\ i + 1 \in 1..(la + 1)
        BY <1>5, <2>1
      <4> QED BY <1>6, <1>8, <2>1, <4>1
    <3> HIDE DEF l, p
    <3>4. DOMAIN l = 1..Len(l) /\ Len(l) \in Nat
      BY <3>1
    <3>5. p + Len(l) - 1 <= lt /\ \A k \in 1..Len(l) : text[p + k - 1] = l[k]
      BY <3>2, <3>4 DEF Stands, lt
    <3>6. p + Len(l) - 1 <= Len(text') /\ \A k \in 1..Len(l) : text'[p + k - 1] = l[k]
      <4>1. p + Len(l) - 1 <= Len(text')
        BY <1>5, <1>7, <3>1, <3>4, <3>5
      <4>2. ASSUME NEW k \in 1..Len(l) PROVE text'[p + k - 1] = l[k]
        <5>1. p + k - 1 \in 1..lt
          BY <1>5, <3>1, <3>4, <3>5
        <5> QED BY <1>7, <3>5, <5>1
      <4> QED BY <4>1, <4>2
    <3>7. Stands(l, p)'
      <4>1. l' = l /\ p' = p
        BY <3>3 DEF l, p
      <4> QED BY <3>4, <3>6, <4>1 DEF Stands
    <3>8. (l' = l) /\ (p' = p)
      BY <3>3 DEF l, p
    <3> QED BY <3>2, <3>3, <3>7, <3>8 DEF l, p
  <2>2. CASE i = la + 1
    <3>1. answer'[i] = e /\ begins'[i] = lt + 1
      BY <1>5, <1>6, <1>8, <1>9, <2>2
    <3>2. DOMAIN line = 1..ll
      BY <1>4 DEF ll
    <3>3. lt + 1 + ll - 1 <= Len(text') /\ \A k \in 1..ll : text'[lt + 1 + k - 1] = line[k]
      <4>1. lt + 1 + ll - 1 <= Len(text')
        BY <1>5, <1>7
      <4>2. \A k \in 1..ll : lt + 1 + k - 1 = lt + k
        BY <1>5
      <4> QED BY <1>7, <4>1, <4>2
    <3>4. Stands(Line(answer[i]), begins[i])'
      BY <3>1, <3>2, <3>3 DEF Stands, line, ll
    <3>5. begins'[i + 1] = Len(text') + 1
      <4>1. i + 1 = la + 2
        BY <1>5, <2>2
      <4> QED BY <1>8, <4>1
    <3>6. begins'[i + 1] = begins'[i] + ll
      BY <1>5, <1>7, <3>1, <3>5
    <3> QED BY <3>1, <3>4, <3>6 DEF line, ll
  <2>3. i \in 1..la \/ i = la + 1
    BY <1>5
  <2> QED BY <2>1, <2>2, <2>3
<1>12. begins'[Len(begins')] = Len(text') + 1
  BY <1>8
<1> QED BY <1>3, <1>6, <1>10, <1>11, <1>12 DEF TextInv

\* So does the end of the answer.
LEMMA ReplyText ==
  ASSUME WireTypeOK, TextInv, Reply
  PROVE  TextInv'
<1>1. /\ phase = "write" /\ phase' = "begin" /\ known' \in Known
      /\ text' = IF text = <<>> THEN <<LBrace, RBrace>> ELSE text
      /\ answer' = answer /\ begins' = begins
  BY DEF Reply
<1>2. (known \in Known)'
  <2>1. Known' = Known
    BY <1>1 DEF Known
  <2> QED BY <1>1, <2>1
<1>3. begins[1] = 1 /\ begins[Len(begins)] = Len(text) + 1
  BY <1>1 DEF TextInv
<1>4. CASE text = <<>>
  <2>1. answer = <<>>
    <3>1. SUFFICES ASSUME answer # <<>> PROVE FALSE
      OBVIOUS
    <3>2. 1 \in DOMAIN answer
      BY <3>1 DEF WireTypeOK
    <3>3. begins[1 + 1] <= Len(text) + 1 /\ begins[1 + 1] = begins[1] + Len(Line(answer[1]))
      BY <3>2, BeginsNext DEF TextInv
    <3>4. Len(Line(answer[1])) \in Nat /\ Len(Line(answer[1])) > 0
      <4> DEFINE e == answer[1]
                 tail == IF e.data = <<>> THEN <<>> ELSE Sized(e.data)
                 a == Len(Sized(e.id))
                 b == Len(Sized(e.meta))
                 c == Len(tail)
      <4>1. e \in AllEvents
        BY <3>2, Lines
      <4>2. /\ Sized(e.id) \in Seq(Chars) /\ Sized(e.meta) \in Seq(Chars) /\ tail \in Seq(Chars)
            /\ Len(Line(e)) = a + b + c + 1
        <5> HIDE DEF e
        <5> QED BY <4>1, LineShape
      <4>3. a \in Nat /\ b \in Nat /\ c \in Nat
        BY <4>2
      <4> HIDE DEF a, b, c
      <4> QED BY <4>2, <4>3
    <3>5. Len(text) = 0
      BY <1>4
    <3> DEFINE l == Len(Line(answer[1]))
    <3> HIDE DEF l
    <3>6. l \in Nat /\ l > 0 /\ 1 + l <= 0 + 1
      BY <1>3, <3>3, <3>4, <3>5 DEF l
    <3> QED BY <3>6
  <2>2. text' # <<>> /\ text' = <<LBrace, RBrace>>
    BY <1>1, <1>4
  <2>3. DOMAIN answer' = {}
    BY <1>1, <2>1
  <2> QED BY <1>1, <1>2, <1>3, <2>1, <2>2, <2>3 DEF TextInv
<1>5. CASE text # <<>>
  <2>1. text' = text
    BY <1>1, <1>5
  <2>2. \A i \in DOMAIN answer : Stands(Line(answer[i]), begins[i])' = Stands(Line(answer[i]), begins[i])
    BY <1>1, <2>1 DEF Stands
  <2> QED BY <1>1, <1>2, <1>3, <1>5, <2>1, <2>2 DEF TextInv
<1> QED BY <1>4, <1>5

-----------------------------------------------------------------------------
\* Each step of the reader keeps the invariant

\* Nothing about the events that were read changes.
LEMMA SameEvents ==
  ASSUME UNCHANGED writerVars, UNCHANGED eventVars, NEW i
  PROVE  ReadUpTo(i)' <=> ReadUpTo(i)
<1>1. /\ answer' = answer /\ known' = known /\ added' = added /\ noted' = noted
      /\ index_object' = index_object /\ jump' = jump /\ event' = event
  BY DEF writerVars, eventVars
<1>2. InOrder(added, New(i - 1))' <=> InOrder(added, New(i - 1))
  BY <1>1 DEF InOrder, New
<1> QED BY <1>1, <1>2 DEF ReadUpTo

\* An answer with events begins with a size.
LEMMA FirstIsDigit ==
  ASSUME WireTypeOK, TextInv, answer # <<>>
  PROVE  text[1] \in Digits /\ 1 \in DOMAIN answer
<1>1. 1 \in DOMAIN answer
  BY DEF WireTypeOK
<1>2. /\ From(1, 0) \in Nat \ {0} /\ Opens(1, 0) \in Nat /\ Opens(1, 0) > From(1, 0)
      /\ \A x \in From(1, 0)..(Opens(1, 0) - 1) : text[x] \in Digits
  <2>1. 0 \in 0..2 /\ (0 = 2 => answer[1].data # <<>>)
    OBVIOUS
  <2> QED BY <1>1, <2>1, SizeAt
<1>3. From(1, 0) = 1
  BY Objects DEF TextInv
<1>4. 1 \in From(1, 0)..(Opens(1, 0) - 1)
  BY <1>2, <1>3
<1> QED BY <1>1, <1>2, <1>4

\* The reader starts at the first event, or is done with {}.
LEMMA BeginStep ==
  ASSUME WireInv, Begin
  PROVE  TextInv' /\ ReaderInv'
<1>0. WireTypeOK /\ TextInv /\ ReaderInv
  BY DEF WireInv
<1>1. /\ phase = "begin" /\ phase' = IF text[1] = LBrace THEN "done" ELSE "read"
      /\ UNCHANGED writerVars /\ UNCHANGED eventVars /\ j' = j /\ n' = n
  BY DEF Begin
<1>2. /\ j = 1 /\ n = 1 /\ index_object = 0 /\ ~jump /\ added = <<>> /\ noted = {}
  BY <1>0, <1>1 DEF ReaderInv
<1>3. answer' = answer /\ text' = text /\ begins' = begins /\ known' = known
  BY <1>1, SameText
<1>4. /\ index_object' = 0 /\ ~jump' /\ added' = <<>> /\ noted' = {}
  BY <1>1, <1>2 DEF eventVars
<1>5. New(0) = {}
  BY DEF New
<1>6. CASE text[1] = LBrace
  <2>1. answer = <<>>
    <3>1. \A c \in Digits : c # LBrace
      BY DigitsPlain DEF Brackets
    <3> QED BY <1>0, <1>6, <3>1, FirstIsDigit
  <2>2. phase' = "done"
    BY <1>1, <1>6
  <2>3. InOrder(added, New(Len(answer)))'
    <3>1. New(Len(answer))' = {}
      BY <1>3, <2>1 DEF New
    <3> QED BY <1>3, <1>4, <3>1, InOrderNone DEF InOrder
  <2>4. ReaderInv'
    <3>1. DOMAIN answer' = {}
      BY <1>3, <2>1
    <3> QED BY <1>4, <2>2, <2>3, <3>1 DEF ReaderInv
  <2>5. TextInv'
    BY <1>0, <1>1, <2>2, SameTextInv
  <2> QED BY <2>4, <2>5
<1>7. CASE text[1] # LBrace
  <2>1. phase' = "read"
    BY <1>1, <1>7
  <2>2. text # <<LBrace, RBrace>>
    BY <1>7
  <2>3. TextInv'
    BY <1>0, <1>1, <2>1, <2>2, SameTextInv
  <2>4. begins[1] = 1 /\ 1 \in DOMAIN begins
    <3>1. begins \in Seq(Nat \ {0}) /\ Len(begins) = Len(answer) + 1 /\ Len(answer) \in Nat
      BY <1>0 DEF WireTypeOK
    <3>2. Len(begins) >= 1
      BY <3>1
    <3> QED BY <1>0, <3>1, <3>2 DEF TextInv
  <2>5. InOrder(added, New(1 - 1))'
    <3>1. New(1 - 1)' = {}
      BY DEF New
    <3> QED BY <1>3, <1>4, <3>1, InOrderNone DEF InOrder
  <2>6. ReadUpTo(1)'
    <3>1. 1..(1 - 1) = {}
      OBVIOUS
    <3> QED BY <1>4, <2>5, <3>1 DEF ReadUpTo
  <2>7. From(1, 0)' = 1
    <3>1. From(1, 0) = 1
      BY <2>4, Objects
    <3> QED BY <1>1, <3>1, SameText
  <2>8. Reading(1)'
    BY <1>1, <1>2, <1>4, <2>1, <2>6, <2>7 DEF Reading
  <2>9. ReaderInv'
    BY <1>3, <2>1, <2>4, <2>8 DEF ReaderInv
  <2> QED BY <2>3, <2>9
<1> QED BY <1>6, <1>7

\* The brace of an object is the first one after its size.
LEMMA ObjectBrace ==
  ASSUME WireTypeOK, TextInv, NEW i \in DOMAIN answer, NEW k \in 0..2, k = 2 => Whole(answer[i])
  PROVE  LET o == Opens(i, k)
         IN  /\ o \in Nat /\ From(i, k) \in Nat \ {0} /\ From(i, k) < o /\ o <= Len(text)
             /\ text[o] = LBrace /\ \A x \in From(i, k)..(o - 1) : text[x] # LBrace
<1> DEFINE o == Opens(i, k)
           t == Object(i, k)
<1>1. k = 2 => answer[i].data # <<>>
  BY DEF Whole
<1>2. answer[i] \in AllEvents
  BY Lines
<1>3. t[1] = LBrace /\ Len(t) > 0
  <2>1. /\ Len(answer[i].id) > 0 /\ answer[i].id[1] = LBrace
        /\ Len(answer[i].meta) > 0 /\ answer[i].meta[1] = LBrace
    <3>1. /\ Len(answer[i].id) = IdSize /\ answer[i].id[1] = LBrace
          /\ Len(answer[i].meta) >= 4 /\ answer[i].meta[1] = LBrace
          /\ answer[i].meta \in Seq(Chars)
      BY <1>2, EventShape
    <3>2. IdSize > 0 /\ Len(answer[i].meta) \in Nat
      BY <3>1, SizeBounds
    <3> QED BY <3>1, <3>2
  <2>2. k = 2 => Len(answer[i].data) > 0 /\ answer[i].data[1] = LBrace
    <3>1. answer[i].data \in Seq(Chars)
      BY <1>2, EventShape
    <3> QED BY <3>1 DEF Whole
  <2>3. k = 0 \/ k = 1 \/ k = 2
    OBVIOUS
  <2> QED BY <2>1, <2>2, <2>3, Objects
<1>4. /\ From(i, k) \in Nat \ {0} /\ o \in Nat /\ o > From(i, k)
      /\ \A x \in From(i, k)..(o - 1) : text[x] \in Digits
  BY <1>1, SizeAt
<1>5. Stands(t, o) /\ t \in Seq(Chars)
  BY <1>1, ObjectAt
<1> HIDE DEF o, t
<1>6. 1 \in DOMAIN t /\ Len(t) \in Nat
  BY <1>3, <1>5
<1>7. o + Len(t) - 1 <= Len(text) /\ text[o + 1 - 1] = t[1]
  BY <1>5, <1>6 DEF Stands
<1>8. text[o] = LBrace /\ o <= Len(text)
  <2>1. o + 1 - 1 = o
    BY <1>4
  <2>2. Len(text) \in Nat
    BY DEF WireTypeOK
  <2> QED BY <1>3, <1>4, <1>6, <1>7, <2>1, <2>2
<1>9. \A c \in Digits : c # LBrace
  BY DigitsPlain DEF Brackets
<1> QED BY <1>4, <1>8, <1>9 DEF o

\* The line goes on behind the meta.
LEMMA TailEnds ==
  ASSUME WireTypeOK, TextInv, NEW i \in DOMAIN answer
  PROVE  From(i, 2) \in Nat \ {0} /\ begins[i + 1] \in Nat /\ From(i, 2) < begins[i + 1]
<1>1. begins[i + 1] \in Nat
  BY BeginsNext
<1>2. CASE answer[i].data = <<>>
  BY <1>1, <1>2, NoDataAt
<1>3. CASE answer[i].data # <<>>
  <2> DEFINE m == Len(Object(i, 2))
             p == From(i, 2)
             w == Len(Decimal(m))
             o == Opens(i, 2)
  <2>1. /\ m \in Nat /\ p \in Nat \ {0} /\ w \in 1..10 /\ o = p + w
        /\ begins[i + 1] = o + m + 1
    BY <1>3, ObjectAt
  <2> HIDE DEF m, p, w, o
  <2>2. p \in Nat \ {0} /\ p < begins[i + 1]
    BY <2>1
  <2> QED BY <1>1, <2>2 DEF p
<1> QED BY <1>2, <1>3

\* Where an event has no brace for its data, the next brace is that of the next id.
LEMMA TailBrace ==
  ASSUME WireTypeOK, TextInv, NEW i \in DOMAIN answer, i < Len(answer), ~Whole(answer[i]),
         answer[i].data # <<>> => answer[i].data[1] # LBracket
  PROVE  LET o == Opens(i + 1, 0)
         IN  /\ i + 1 \in DOMAIN answer
             /\ o \in Nat /\ From(i, 2) \in Nat \ {0} /\ From(i, 2) + 1 < o /\ o <= Len(text)
             /\ text[o] = LBrace /\ \A x \in From(i, 2)..(o - 1) : text[x] # LBrace
<1> DEFINE o == Opens(i + 1, 0)
           p == From(i, 2)
           b == begins[i + 1]
<1>1. i + 1 \in DOMAIN answer /\ From(i + 1, 0) = b
  BY BeginsNext
<1>2. p \in Nat \ {0} /\ b \in Nat /\ p < b
  BY TailEnds
<1>3. \A x \in p..(b - 1) : text[x] # LBrace
  BY NoBraceInTail
<1>4. /\ o \in Nat /\ b < o /\ o <= Len(text) /\ text[o] = LBrace
      /\ \A x \in b..(o - 1) : text[x] # LBrace
  <2>1. 0 \in 0..2 /\ (0 = 2 => Whole(answer[i + 1]))
    OBVIOUS
  <2> QED BY <1>1, <2>1, ObjectBrace
<1> HIDE DEF o, p, b
<1>5. \A x \in p..(o - 1) : x \in p..(b - 1) \/ x \in b..(o - 1)
  BY <1>2, <1>4
<1>6. p + 1 < o
  BY <1>2, <1>4
<1> QED BY <1>1, <1>2, <1>3, <1>4, <1>5, <1>6 DEF o, p

\* Where the text ends.
LEMMA LastTail ==
  ASSUME WireTypeOK, TextInv, phase \notin {"begin", "done"}
  PROVE  /\ Len(answer) + 1 \in DOMAIN begins
         /\ begins[Len(answer) + 1] = Len(text) + 1
         /\ From(Len(answer) + 1, 0) = Len(text) + 1
<1>1. /\ begins \in Seq(Nat \ {0}) /\ Len(begins) = Len(answer) + 1 /\ Len(answer) \in Nat
      /\ Len(text) \in Nat
  BY DEF WireTypeOK
<1>2. Len(answer) + 1 \in DOMAIN begins
  BY <1>1
<1>3. begins[Len(answer) + 1] = Len(text) + 1
  BY <1>1 DEF TextInv
<1>4. From(Len(answer) + 1, 0) = begins[Len(answer) + 1] + 0 + 0
  BY Objects
<1> QED BY <1>1, <1>2, <1>3, <1>4

\* The two braces of a meta, for a reader that comes from its size or after it.
LEMMA MetaBraces ==
  ASSUME WireTypeOK, TextInv, NEW i \in DOMAIN answer
  PROVE  LET o == Opens(i, 1)
             b == o + Len(Object(i, 1)) - 3
             p == From(i, 1)
         IN  /\ o \in Nat /\ p \in Nat \ {0} /\ p < o /\ b \in Nat /\ o < b /\ b <= Len(text)
             /\ text[o] = LBrace /\ text[b] = LBrace
             /\ \A x \in p..(o - 1) : text[x] # LBrace
             /\ \A x \in (o + 1)..(b - 1) : text[x] # LBrace
<1> DEFINE o == Opens(i, 1)
           d == Object(i, 1)
           p == From(i, 1)
<1>1. 1 \in 0..2 /\ 1 \in 0..1 /\ (1 = 2 => Whole(answer[i]))
  OBVIOUS
<1>2. /\ o \in Nat /\ p \in Nat \ {0} /\ p < o
      /\ text[o] = LBrace /\ \A x \in p..(o - 1) : text[x] # LBrace
  BY <1>1, ObjectBrace
<1>3. answer[i] \in AllEvents
  BY Lines
<1>4. PICK h \in Hashes, s \in MetaSizes : answer[i].meta = Nested(h, s)
  BY <1>3, EventShape
<1>5. d = Nested(h, s)
  BY <1>4, Objects
<1>6. s \in Nat /\ s >= 4
  BY SizeBounds
<1>7. Len(d) = s /\ d[s - 2] = LBrace /\ \A x \in 2..(s - 3) : d[x] = h
  <2> DEFINE f == Nested(h, s)
  <2>1. Len(f) = s /\ f[s - 2] = LBrace /\ \A x \in 2..(s - 3) : f[x] = h
    BY <1>6, NestedShape
  <2>2. d = f
    BY <1>5
  <2> HIDE DEF f, d
  <2> QED BY <2>1, <2>2
<1>8. h # LBrace
  BY DigitsPlain DEF Brackets
<1>9. (\A x \in 1..Len(d) : text[o + x - 1] = d[x]) /\ o + Len(d) - 1 <= Len(text)
  BY <1>1, Follows
<1>10. Len(text) \in Nat
  BY DEF WireTypeOK
<1> HIDE DEF o, d, p
<1> DEFINE b == o + Len(d) - 3
<1>11. b \in Nat /\ o < b /\ b <= Len(text) /\ b = o + s - 3
  BY <1>2, <1>6, <1>7, <1>9, <1>10
<1> HIDE DEF b
<1>12. text[b] = LBrace
  <2>1. s - 2 \in 1..Len(d) /\ o + (s - 2) - 1 = b
    BY <1>2, <1>6, <1>7, <1>11
  <2>2. text[o + (s - 2) - 1] = d[s - 2]
    BY <1>9, <2>1
  <2> QED BY <1>7, <2>1, <2>2
<1>13. ASSUME NEW x \in (o + 1)..(b - 1) PROVE text[x] # LBrace
  <2>1. x - o + 1 \in 2..(s - 3) /\ x - o + 1 \in 1..Len(d) /\ o + (x - o + 1) - 1 = x
    BY <1>2, <1>6, <1>7, <1>11
  <2>2. text[o + (x - o + 1) - 1] = d[x - o + 1]
    BY <1>9, <2>1
  <2> QED BY <1>7, <1>8, <2>1, <2>2
<1> QED BY <1>2, <1>11, <1>12, <1>13 DEF o, d, p, b

\* Find finds the first brace.
LEMMA FirstBrace ==
  ASSUME WireTypeOK, Find, NEW a \in Nat, NEW o \in Nat, a <= j, j <= o, text[o] = LBrace,
         \A x \in a..(o - 1) : text[x] # LBrace
  PROVE  j' = o
<1>1. /\ j \in Nat /\ Len(text) \in Nat
      /\ j' \in j..Len(text) /\ text[j'] = LBrace /\ \A x \in j..(j' - 1) : text[x] # LBrace
  <2>1. j \in Nat /\ Len(text) \in Nat
    BY DEF WireTypeOK
  <2>2. j' \in j..Len(text) /\ text[j'] = LBrace /\ \A x \in j..(j' - 1) : text[x] # LBrace
    BY DEF Find, NoBrace
  <2> QED BY <2>1, <2>2
<1>4. j' \in Nat
  BY <1>1
<1>2. ~(j' < o)
  <2>1. j' < o => j' \in a..(o - 1)
    BY <1>1, <1>4
  <2> QED BY <1>1, <2>1
<1>3. ~(j' > o)
  <2> DEFINE y == j'
  <2>2. y \in Nat /\ j \in Nat
    BY <1>1, <1>4
  <2> HIDE DEF y
  <2>3. y > o => o \in j..(y - 1)
    BY <2>2
  <2>1. j' > o => o \in j..(j' - 1)
    BY <2>3 DEF y
  <2> QED BY <1>1, <2>1
<1> QED BY <1>2, <1>3, <1>4

\* What the reader can be at: each of the four in ReaderInv has such an i.
LEMMA Indices ==
  ASSUME WireTypeOK, NEW i \in DOMAIN begins
  PROVE  /\ i \in Nat \ {0} /\ Len(answer) \in Nat /\ (i <= Len(answer) => i \in DOMAIN answer)
         /\ (i > Len(answer) => i = Len(answer) + 1)
<1>1. /\ answer \in Seq(AllEvents) /\ begins \in Seq(Nat \ {0}) /\ Len(begins) = Len(answer) + 1
  BY DEF WireTypeOK
<1>2. DOMAIN begins = 1..(Len(answer) + 1) /\ DOMAIN answer = 1..Len(answer) /\ Len(answer) \in Nat
  BY <1>1
<1> QED BY <1>2

\* From the size of an object to the object, or to the next brace when there is
\* no object: the size of the next event, or the middle of an array.
LEMMA FindStep ==
  ASSUME WireInv, Find
  PROVE  TextInv' /\ ReaderInv'
<1>0. WireTypeOK /\ TextInv /\ ReaderInv
  BY DEF WireInv
<1>1. /\ phase = "read" /\ UNCHANGED writerVars /\ UNCHANGED eventVars
      /\ n' = n /\ json_temp' = json_temp
      /\ \/ j' - n > 10 /\ phase' = "undefined" /\ size' = size
         \/ j' - n <= 10 /\ phase' = "parse" /\ size' = Atoi(SubSeq(text, n, j' - 1))
      /\ j' \in j..Len(text) /\ text[j'] = LBrace
  BY DEF Find
<1>2. /\ answer' = answer /\ text' = text /\ begins' = begins /\ known' = known
      /\ index_object' = index_object /\ jump' = jump
      /\ \A i, k : /\ Object(i, k)' = Object(i, k) /\ From(i, k)' = From(i, k)
                   /\ Opens(i, k)' = Opens(i, k)
  BY <1>1, SameText DEF eventVars
<1>3. known \in Known /\ ~(answer = <<>> /\ text = <<LBrace, RBrace>>)
  <2>1. ~(answer = <<>> /\ text = <<LBrace, RBrace>>)
    <3>1. SUFFICES ASSUME answer = <<>>, text = <<LBrace, RBrace>> PROVE FALSE
      OBVIOUS
    <3>2. begins[Len(begins)] = Len(text) + 1
      BY <1>0, <1>1 DEF TextInv
    <3>3. Len(answer) = 0 /\ Len(begins) = Len(answer) + 1
      BY <1>0, <3>1 DEF WireTypeOK
    <3>4. Len(begins) = 1
      BY <3>3
    <3>5. begins[1] = 1 /\ Len(text) = 2
      BY <1>0, <3>1 DEF TextInv
    <3> QED BY <3>2, <3>4, <3>5
  <2> QED BY <1>0, <1>1, <2>1 DEF TextInv
<1>4. TextInv'
  BY <1>0, <1>1, <1>3, SameTextInv
<1>5. \A i : ReadUpTo(i)' <=> ReadUpTo(i)
  BY <1>1, SameEvents
<1>6. PICK i \in DOMAIN begins : Reading(i) \/ Lost(i)
  BY <1>0, <1>1 DEF ReaderInv, Parsing, Astray
<1>7. /\ i \in Nat \ {0} /\ Len(answer) \in Nat /\ (i <= Len(answer) => i \in DOMAIN answer)
      /\ (i > Len(answer) => i = Len(answer) + 1)
  BY <1>0, <1>6, Indices
<1>8. \A m : Whole(answer[m])' = Whole(answer[m])
  BY <1>2 DEF Whole
<1>9. j \in Nat /\ n \in Nat /\ Len(text) \in Nat /\ index_object \in 0..2 /\ jump \in BOOLEAN
  BY <1>0 DEF WireTypeOK
<1>10. ASSUME NEW m \in DOMAIN begins, phase' = "parse", Parsing(m)' \/ Astray(m)' \/ Lost(m)'
       PROVE  ReaderInv'
  <2>1. m \in DOMAIN begins'
    BY <1>2
  <2> QED BY <1>10, <2>1 DEF ReaderInv
<1>11. ASSUME NEW m \in DOMAIN answer, phase' = "undefined", ~Whole(answer[m])
       PROVE  ReaderInv'
  <2>1. m \in DOMAIN answer' /\ ~Whole(answer[m])'
    BY <1>2, <1>8, <1>11
  <2> QED BY <1>11, <2>1 DEF ReaderInv
<1>12. CASE Reading(i)
  <2> DEFINE k == index_object
  <2>1. /\ ReadUpTo(i) /\ (i > Len(answer) => k = 0)
        /\ n = From(i, k) /\ j \in {n, n + 1}
    BY <1>12 DEF Reading
  <2>2. n <= j /\ j <= n + 1
    BY <1>9, <2>1
  <2>3. i <= Len(answer)
    <3>1. SUFFICES ASSUME i > Len(answer) PROVE FALSE
      BY <1>7
    <3>2. n = Len(text) + 1
      BY <1>0, <1>1, <1>7, <2>1, <3>1, LastTail
    <3> QED BY <1>1, <1>9, <2>2, <3>2
  <2>4. i \in DOMAIN answer
    BY <1>7, <2>3
  <2>5. CASE k = 2 => Whole(answer[i])
    <3> DEFINE o == Opens(i, k)
    <3>1. /\ o \in Nat /\ n \in Nat /\ n < o /\ text[o] = LBrace
          /\ \A x \in n..(o - 1) : text[x] # LBrace
      BY <1>0, <1>9, <2>1, <2>4, <2>5, ObjectBrace
    <3>2. j' = o
      <4>1. j <= o
        BY <1>9, <2>2, <3>1
      <4> HIDE DEF o
      <4> QED BY <1>0, <2>2, <3>1, <4>1, FirstBrace
    <3>3. o - n <= 10 /\ Atoi(SubSeq(text, n, o - 1)) = Len(Object(i, k))
      <4>1. k = 2 => answer[i].data # <<>>
        BY <2>5 DEF Whole
      <4> QED BY <1>0, <1>9, <2>1, <2>4, <4>1, SizeAt
    <3> HIDE DEF o
    <3>4. phase' = "parse" /\ size' = Len(Object(i, k))
      <4>1. ~(o - n > 10)
        BY <3>1, <3>3
      <4> QED BY <1>1, <3>2, <3>3, <4>1
    <3>5. Parsing(i)'
      <4>1. i <= Len(answer') /\ (index_object' = 2 => Whole(answer[i])')
        BY <1>2, <1>8, <2>3, <2>5
      <4>2. ReadUpTo(i)'
        BY <1>5, <2>1
      <4>3. j' = Opens(i, index_object)' /\ size' = Len(Object(i, index_object))'
        <5>1. Opens(i, index_object)' = Opens(i, k) /\ Object(i, index_object)' = Object(i, k)
          BY <1>2 DEF Opens, From, Object
        <5> QED BY <3>2, <3>4, <5>1 DEF o
      <4> QED BY <3>4, <4>1, <4>2, <4>3 DEF Parsing
    <3> QED BY <1>4, <1>6, <1>10, <3>4, <3>5
  <2>6. CASE k = 2 /\ ~Whole(answer[i])
    <3>1. ~jump
      <4>1. answer[i].id \notin known
        BY <1>3, <2>4, <2>6, NotKnown
      <4>2. jump = (answer[i].id \in known)
        <5>1. index_object > 0
          BY <2>6
        <5> QED BY <2>1, <5>1 DEF ReadUpTo
      <4> QED BY <4>1, <4>2
    <3>2. n = From(i, 2)
      BY <2>1, <2>6
    <3>3. CASE phase' = "undefined"
      BY <1>4, <1>11, <2>4, <2>6, <3>3
    <3>4. CASE phase' = "parse"
      <4>1. size' = Atoi(SubSeq(text, n, j' - 1))
        BY <1>1, <3>4
      <4>2. CASE answer[i].data # <<>> /\ answer[i].data[1] = LBracket
        <5>1. /\ text[n] # LBrace /\ text[n + 1] # LBrace /\ text[n + 2] = LBrace
              /\ Atoi(SubSeq(text, n, n + 1)) = 7
          BY <1>0, <2>4, <2>6, <3>2, <4>2, ArrayAt
        <5>2. j' = n + 2
          <6> DEFINE o == n + 2
          <6>0. \A x \in n..(o - 1) : x = n \/ x = n + 1
            BY <1>9
          <6>1. \A x \in n..(o - 1) : text[x] # LBrace
            BY <5>1, <6>0
          <6>2. o \in Nat /\ n <= j /\ j <= o /\ text[o] = LBrace
            BY <1>9, <2>2, <5>1
          <6> HIDE DEF o
          <6>3. j' = o
            BY <1>0, <1>9, <6>1, <6>2, FirstBrace
          <6> QED BY <6>3 DEF o
        <5>3. size' = 7
          <6>1. j' - 1 = n + 1
            BY <1>9, <5>2
          <6> QED BY <4>1, <5>1, <6>1
        <5>4. Astray(i)'
          <6>1. j' = From(i, 2)' + 2
            BY <1>2, <3>2, <5>2
          <6> QED BY <1>2, <1>8, <2>3, <2>6, <3>1, <3>4, <4>2, <5>3, <6>1 DEF Astray
        <5> QED BY <1>4, <1>10, <3>4, <5>4
      <4>3. CASE answer[i].data # <<>> => answer[i].data[1] # LBracket
        <5>1. i < Len(answer)
          <6>1. SUFFICES ASSUME i = Len(answer) PROVE FALSE
            BY <1>7, <2>3
          <6>2. begins[i + 1] = Len(text) + 1
            BY <1>0, <1>1, <6>1, LastTail
          <6>3. \A x \in n..(begins[i + 1] - 1) : text[x] # LBrace
            BY <1>0, <2>4, <2>6, <3>2, <4>3, NoBraceInTail
          <6>4. j' \in n..(begins[i + 1] - 1)
            BY <1>1, <1>9, <2>2, <6>2
          <6> QED BY <1>1, <6>3, <6>4
        <5> DEFINE o == Opens(i + 1, 0)
        <5>2. /\ o \in Nat /\ n + 1 < o /\ text[o] = LBrace
              /\ \A x \in n..(o - 1) : text[x] # LBrace
          BY <1>0, <2>4, <2>6, <3>2, <4>3, <5>1, TailBrace
        <5>3. j' = o
          <6>1. j <= o
            BY <1>9, <2>2, <5>2
          <6> HIDE DEF o
          <6> QED BY <1>0, <1>9, <2>2, <5>2, <6>1, FirstBrace
        <5>4. Astray(i)'
          <6>1. j' = Opens(i + 1, 0)' /\ i < Len(answer')
            BY <1>2, <5>1, <5>3
          <6> QED BY <1>2, <1>8, <2>3, <2>6, <3>1, <3>4, <6>1 DEF Astray
        <5> QED BY <1>4, <1>10, <3>4, <5>4
      <4> QED BY <4>2, <4>3
    <3> QED BY <1>1, <3>3, <3>4
  <2> QED BY <2>5, <2>6
<1>13. CASE Lost(i)
  <2>1. /\ i \in 2..Len(answer) /\ ~Whole(answer[i - 1]) /\ index_object = 0 /\ ~jump
        /\ n = From(i, 1) + 1 /\ j = n + 1
    BY <1>1, <1>13 DEF Lost
  <2>2. i \in DOMAIN answer /\ i - 1 \in DOMAIN answer
    <3>1. DOMAIN answer = 1..Len(answer)
      BY <1>0 DEF WireTypeOK
    <3> QED BY <1>7, <2>1, <3>1
  <2>3. CASE phase' = "undefined"
    BY <1>4, <1>11, <2>1, <2>2, <2>3
  <2>4. CASE phase' = "parse"
    <3> DEFINE o == Opens(i, 1)
               b == o + Len(Object(i, 1)) - 3
               p == From(i, 1)
    <3>1. /\ o \in Nat /\ p \in Nat \ {0} /\ p < o /\ b \in Nat /\ o < b
          /\ text[o] = LBrace /\ text[b] = LBrace
          /\ \A x \in p..(o - 1) : text[x] # LBrace
          /\ \A x \in (o + 1)..(b - 1) : text[x] # LBrace
      BY <1>0, <2>2, MetaBraces
    <3>2. j = p + 2
      BY <2>1, <3>1
    <3>3. j' \in {o, b}
      <4> HIDE DEF o, b, p
      <4>1. CASE j <= o
        <5>1. p <= j
          BY <3>1, <3>2
        <5> QED BY <1>0, <3>1, <4>1, <5>1, FirstBrace
      <4>2. CASE j > o
        <5>1. o + 1 <= j /\ j <= b /\ o + 1 \in Nat
          BY <3>1, <3>2, <4>2
        <5> QED BY <1>0, <3>1, <5>1, FirstBrace
      <4> QED BY <1>9, <3>1, <4>1, <4>2
    <3>4. Lost(i)'
      <4>1. j' \in {Opens(i, 1)', Opens(i, 1)' + Len(Object(i, 1)') - 3}
        BY <1>2, <3>3
      <4> QED BY <1>2, <1>8, <2>1, <2>4, <4>1 DEF Lost
    <3> QED BY <1>4, <1>10, <2>4, <3>4
  <2> QED BY <1>1, <2>3, <2>4
<1> QED BY <1>6, <1>12, <1>13

\* No brace is left only behind the last event.
LEMMA EndStep ==
  ASSUME WireInv, End
  PROVE  TextInv' /\ ReaderInv'
<1>0. WireTypeOK /\ TextInv /\ ReaderInv
  BY DEF WireInv
<1>1. /\ phase = "read" /\ phase' = "done" /\ UNCHANGED writerVars /\ UNCHANGED eventVars
      /\ \A x \in j..Len(text) : text[x] # LBrace
  BY DEF End, NoBrace
<1>2. /\ answer' = answer /\ text' = text /\ begins' = begins /\ known' = known
      /\ index_object' = index_object /\ jump' = jump /\ added' = added /\ noted' = noted
  BY <1>1, SameText DEF eventVars
<1>3. known \in Known
  BY <1>0, <1>1 DEF TextInv
<1>4. TextInv'
  BY <1>0, <1>1, SameTextInv
<1>5. PICK i \in DOMAIN begins : Reading(i) \/ Lost(i)
  BY <1>0, <1>1 DEF ReaderInv, Parsing, Astray
<1>6. /\ i \in Nat \ {0} /\ Len(answer) \in Nat /\ (i <= Len(answer) => i \in DOMAIN answer)
      /\ (i > Len(answer) => i = Len(answer) + 1)
  BY <1>0, <1>5, Indices
<1>7. j \in Nat /\ n \in Nat /\ Len(text) \in Nat /\ index_object \in 0..2 /\ jump \in BOOLEAN
  BY <1>0 DEF WireTypeOK
<1>8. ASSUME NEW o \in Nat, j <= o, o <= Len(text), text[o] = LBrace PROVE FALSE
  <2>1. o \in j..Len(text)
    BY <1>7, <1>8
  <2> QED BY <1>1, <1>8, <2>1
<1>9. DOMAIN answer = 1..Len(answer)
  BY <1>0 DEF WireTypeOK
<1>10. ASSUME \A m \in DOMAIN answer : m < Len(answer) => Whole(answer[m]),
              InOrder(added, New(Len(answer))),
              noted = known \cap {answer[m].id : m \in DOMAIN answer}
       PROVE  ReaderInv'
  <2>1. \A m : Whole(answer[m])' = Whole(answer[m])
    BY <1>2 DEF Whole
  <2>2. InOrder(added, New(Len(answer)))'
    BY <1>2, <1>10 DEF InOrder, New
  <2> QED BY <1>1, <1>2, <1>10, <2>1, <2>2 DEF ReaderInv
<1>11. CASE Reading(i)
  <2>1. /\ ReadUpTo(i) /\ (i > Len(answer) => index_object = 0)
        /\ n = From(i, index_object) /\ j \in {n, n + 1}
    BY <1>11 DEF Reading
  <2>2. n <= j /\ j <= n + 1
    BY <1>7, <2>1
  <2>3. /\ \A m \in 1..(i - 1) : Whole(answer[m])
        /\ InOrder(added, New(i - 1))
        /\ noted = known \cap {answer[m].id : m \in 1..(IF index_object = 0 THEN i - 1 ELSE i)}
    BY <2>1 DEF ReadUpTo
  <2>4. CASE i > Len(answer)
    <3>1. i - 1 = Len(answer) /\ index_object = 0
      BY <1>6, <2>1, <2>4
    <3>2. noted = known \cap {answer[m].id : m \in DOMAIN answer}
      BY <1>9, <2>3, <3>1
    <3>3. InOrder(added, New(Len(answer)))
      BY <2>3, <3>1
    <3>4. \A m \in DOMAIN answer : m < Len(answer) => Whole(answer[m])
      BY <1>9, <2>3, <3>1
    <3> QED BY <1>4, <1>10, <3>2, <3>3, <3>4
  <2>5. CASE i <= Len(answer) /\ (index_object = 2 => Whole(answer[i]))
    <3>1. i \in DOMAIN answer
      BY <1>6, <2>5
    <3> DEFINE o == Opens(i, index_object)
    <3>2. o \in Nat /\ n < o /\ o <= Len(text) /\ text[o] = LBrace
      BY <1>0, <1>7, <2>1, <2>5, <3>1, ObjectBrace
    <3>3. j <= o
      BY <1>7, <2>2, <3>2
    <3> HIDE DEF o
    <3> QED BY <1>8, <3>2, <3>3
  <2>6. CASE i <= Len(answer) /\ index_object = 2 /\ ~Whole(answer[i])
    <3>1. i \in DOMAIN answer /\ n = From(i, 2)
      BY <1>6, <2>1, <2>6
    <3>2. CASE answer[i].data # <<>> /\ answer[i].data[1] = LBracket
      <4>1. n + 8 <= Len(text) /\ text[n + 2] = LBrace
        BY <1>0, <2>6, <3>1, <3>2, ArrayAt
      <4> DEFINE o == n + 2
      <4>2. o \in Nat /\ j <= o /\ o <= Len(text) /\ text[o] = LBrace
        BY <1>7, <2>2, <4>1
      <4> HIDE DEF o
      <4> QED BY <1>8, <4>2
    <3>3. CASE answer[i].data # <<>> => answer[i].data[1] # LBracket
      <4>1. CASE i < Len(answer)
        <5> DEFINE o == Opens(i + 1, 0)
        <5>1. o \in Nat /\ n + 1 < o /\ o <= Len(text) /\ text[o] = LBrace
          BY <1>0, <2>6, <3>1, <3>3, <4>1, TailBrace
        <5>2. j <= o
          BY <1>7, <2>2, <5>1
        <5> HIDE DEF o
        <5> QED BY <1>8, <5>1, <5>2
      <4>2. CASE i = Len(answer)
        <5>1. \A m \in DOMAIN answer : m < Len(answer) => Whole(answer[m])
          <6>1. \A m \in DOMAIN answer : m < Len(answer) => m \in 1..(i - 1)
            <7> DEFINE la == Len(answer)
            <7>1. la \in Nat /\ i = la /\ DOMAIN answer = 1..la
              BY <1>6, <1>9, <4>2
            <7> HIDE DEF la
            <7>2. \A m \in 1..la : m < la => m \in 1..(i - 1)
              BY <7>1
            <7> QED BY <7>1, <7>2 DEF la
          <6> QED BY <2>3, <6>1
        <5>2. New(Len(answer)) = New(i - 1)
          <6> DEFINE m == i - 1
          <6>1. m \in Nat /\ m + 1 = Len(answer) /\ m + 1 = i
            BY <1>6, <4>2
          <6> HIDE DEF m
          <6>2. ~Whole(answer[m + 1])
            BY <2>6, <6>1
          <6>3. New(m + 1) = New(m)
            BY <6>1, <6>2, NewNext
          <6> QED BY <6>1, <6>3 DEF m
        <5>3. noted = known \cap {answer[m].id : m \in DOMAIN answer}
          <6>1. noted = known \cap {answer[m].id : m \in 1..i}
            BY <2>3, <2>6
          <6> QED BY <1>9, <4>2, <6>1
        <5> QED BY <1>4, <1>10, <2>3, <5>1, <5>2, <5>3
      <4> QED BY <1>6, <2>6, <4>1, <4>2
    <3> QED BY <3>2, <3>3
  <2> QED BY <1>6, <2>4, <2>5, <2>6
<1>12. CASE Lost(i)
  <2>1. i \in 2..Len(answer) /\ n = From(i, 1) + 1 /\ j = n + 1
    BY <1>1, <1>12 DEF Lost
  <2>2. i \in DOMAIN answer
    BY <1>9, <2>1, <1>6
  <2> DEFINE o == Opens(i, 1)
             b == o + Len(Object(i, 1)) - 3
             p == From(i, 1)
  <2>3. /\ o \in Nat /\ p \in Nat \ {0} /\ p < o /\ b \in Nat /\ o < b
        /\ b <= Len(text) /\ text[b] = LBrace
    BY <1>0, <2>2, MetaBraces
  <2>4. j = p + 2
    BY <2>1, <2>3
  <2> HIDE DEF o, b, p
  <2>5. j <= b
    BY <2>3, <2>4
  <2> QED BY <1>8, <2>3, <2>5
<1> QED BY <1>5, <1>11, <1>12

\* What was found is parsed with the size read, and thrown unless it is an
\* object of the right kind.
LEMMA ParseStep ==
  ASSUME WireInv, Parse
  PROVE  TextInv' /\ ReaderInv'
<1>0. WireTypeOK /\ TextInv /\ ReaderInv
  BY DEF WireInv
<1>1. /\ phase = "parse" /\ UNCHANGED writerVars /\ UNCHANGED eventVars
      /\ j' = j /\ n' = n /\ size' = size
  BY DEF Parse
<1>2. \/ jump /\ phase' = "object"
      \/ ~jump /\ j + size - 1 > Len(text) /\ phase' = "undefined"
      \/ /\ ~jump /\ j + size - 1 <= Len(text)
         /\ json_temp' = SubSeq(text, j, j + size - 1)
         /\ phase' = IF IsObject(json_temp') /\ (index_object = 0 => HasId(json_temp'))
                     THEN "object" ELSE "thrown"
  BY DEF Parse
<1>3. /\ answer' = answer /\ text' = text /\ begins' = begins /\ known' = known
      /\ index_object' = index_object /\ jump' = jump
      /\ \A i, k : /\ Object(i, k)' = Object(i, k) /\ From(i, k)' = From(i, k)
                   /\ Opens(i, k)' = Opens(i, k)
  BY <1>1, SameText DEF eventVars
<1>4. TextInv'
  <2>1. ~(answer = <<>> /\ text = <<LBrace, RBrace>>)
    <3>1. PICK i \in DOMAIN begins : Parsing(i) \/ Astray(i) \/ Lost(i)
      BY <1>0, <1>1 DEF ReaderInv, Reading
    <3>2. i \in Nat /\ i > 0 /\ i <= Len(answer) /\ Len(answer) \in Nat
      BY <1>0, <3>1, Indices DEF Parsing, Astray, Lost
    <3> QED BY <3>2
  <2> QED BY <1>0, <1>1, <1>2, <2>1, SameTextInv
<1>5. \A i : ReadUpTo(i)' <=> ReadUpTo(i)
  BY <1>1, SameEvents
<1>6. PICK i \in DOMAIN begins : Parsing(i) \/ Astray(i) \/ Lost(i)
  BY <1>0, <1>1 DEF ReaderInv, Reading
<1>7. /\ i \in Nat \ {0} /\ Len(answer) \in Nat /\ (i <= Len(answer) => i \in DOMAIN answer)
  BY <1>0, <1>6, Indices
<1>8. \A m : Whole(answer[m])' = Whole(answer[m])
  BY <1>3 DEF Whole
<1>9. /\ j \in Nat \ {0} /\ size \in Nat /\ Len(text) \in Nat /\ index_object \in 0..2
      /\ text \in Seq(Chars) /\ DOMAIN answer = 1..Len(answer) /\ begins \in Seq(Nat \ {0})
  BY <1>0 DEF WireTypeOK
<1>10. ASSUME NEW m \in DOMAIN begins, phase' = "object", Parsing(m)' \/ Astray(m)'
       PROVE  ReaderInv'
  <2>1. m \in DOMAIN begins'
    BY <1>3
  <2> QED BY <1>10, <2>1 DEF ReaderInv
<1>11. ASSUME NEW m \in DOMAIN answer, phase' \in {"thrown", "undefined"}, ~Whole(answer[m])
       PROVE  ReaderInv'
  <2>1. m \in DOMAIN answer' /\ ~Whole(answer[m])'
    BY <1>3, <1>8, <1>11
  <2> QED BY <1>11, <2>1 DEF ReaderInv
<1>12. CASE Parsing(i)
  <2> DEFINE k == index_object
             t == Object(i, k)
  <2>1. /\ i <= Len(answer) /\ (k = 2 => Whole(answer[i])) /\ ReadUpTo(i)
        /\ j = Opens(i, k) /\ size = Len(t)
    BY <1>12 DEF Parsing
  <2>2. i \in DOMAIN answer /\ (k = 2 => answer[i].data # <<>>)
    BY <1>7, <2>1 DEF Whole
  <2>3. phase' = "object" /\ (~jump => json_temp' = t)
    <3>1. CASE jump
      BY <1>2, <3>1
    <3>2. CASE ~jump
      <4>1. Stands(t, j) /\ t \in Seq(Chars) /\ DOMAIN t = 1..size
        <5>1. Stands(t, Opens(i, k)) /\ t \in Seq(Chars)
          BY <1>0, <1>9, <2>2, ObjectAt
        <5> HIDE DEF t
        <5> QED BY <2>1, <5>1
      <4>2. j + size - 1 <= Len(text) /\ \A x \in 1..size : text[j + x - 1] = t[x]
        BY <2>1, <4>1 DEF Stands
      <4>3. json_temp' = SubSeq(text, j, j + size - 1)
        BY <1>2, <1>9, <3>2, <4>2
      <4>4. SubSeq(text, j, j + size - 1) = t
        <5> DEFINE s == SubSeq(text, j, j + size - 1)
        <5>1. s \in Seq(Chars) /\ Len(s) = size /\ \A x \in 1..size : s[x] = text[j + x - 1]
          BY <1>9, <4>2, Slice
        <5> HIDE DEF s, t
        <5>2. \A x \in 1..size : s[x] = t[x]
          BY <4>2, <5>1
        <5>3. s = t
          BY <4>1, <5>1, <5>2
        <5> QED BY <5>3 DEF s
      <4>5. IsObject(t) /\ (k = 0 => HasId(t))
        <5>1. answer[i] \in AllEvents
          BY <1>0, <2>2, Lines
        <5>2. IsObject(answer[i].id) /\ HasId(answer[i].id) /\ IsObject(answer[i].meta)
          BY <5>1, ObjectsAreObjects
        <5>3. k = 2 => IsObject(answer[i].data)
          BY <2>1, <5>1, DataShape
        <5>4. k = 0 \/ k = 1 \/ k = 2
          BY <1>9
        <5> QED BY <5>2, <5>3, <5>4, Objects
      <4>6. json_temp' = t
        BY <4>3, <4>4
      <4>7. phase' = "object"
        <5>1. ~(j + size - 1 > Len(text))
          BY <1>9, <4>2
        <5> HIDE DEF t
        <5> QED BY <1>2, <3>2, <4>5, <4>6, <5>1
      <4> QED BY <4>6, <4>7
    <3> QED BY <3>1, <3>2
  <2>4. Parsing(i)'
    <3>1. i <= Len(answer') /\ (index_object' = 2 => Whole(answer[i])') /\ ReadUpTo(i)'
      BY <1>3, <1>5, <1>8, <2>1
    <3>2. Opens(i, index_object)' = Opens(i, k) /\ Object(i, index_object)' = t
      BY <1>3 DEF Opens, From, Object
    <3> QED BY <1>1, <1>3, <2>1, <2>3, <3>1, <3>2 DEF Parsing
  <2> QED BY <1>4, <1>6, <1>10, <2>3, <2>4
<1>13. CASE Astray(i)
  <2>1. /\ i <= Len(answer) /\ ~Whole(answer[i]) /\ index_object = 2 /\ ~jump
        /\ \/ i < Len(answer) /\ j = Opens(i + 1, 0)
           \/ /\ answer[i].data # <<>> /\ answer[i].data[1] = LBracket
              /\ j = From(i, 2) + 2 /\ size = 7
    BY <1>13 DEF Astray
  <2>2. i \in DOMAIN answer
    BY <1>7, <2>1
  <2>3. CASE phase' \in {"thrown", "undefined"}
    BY <1>4, <1>11, <2>1, <2>2, <2>3
  <2>4. CASE phase' = "object"
    <3>1. j + size - 1 <= Len(text) /\ IsObject(SubSeq(text, j, j + size - 1))
      BY <1>2, <2>1, <2>4
    <3>2. CASE i < Len(answer) /\ j = Opens(i + 1, 0)
      <4>1. i + 1 \in DOMAIN answer
        BY <1>0, <2>2, <3>2, BeginsNext
      <4>2. size = IdSize
        BY <1>0, <1>9, <3>1, <3>2, <4>1, AstrayText
      <4>3. Astray(i)'
        <5>1. j' = Opens(i + 1, 0)' /\ size' = IdSize
          BY <1>1, <1>3, <3>2, <4>2
        <5> QED BY <1>3, <1>8, <2>1, <2>4, <3>2, <5>1 DEF Astray
      <4> QED BY <1>4, <1>6, <1>10, <2>4, <4>3
    <3>3. CASE /\ answer[i].data # <<>> /\ answer[i].data[1] = LBracket
               /\ j = From(i, 2) + 2 /\ size = 7
      <4>1. ~IsObject(SubSeq(text, From(i, 2) + 2, From(i, 2) + 2 + 7 - 1))
        BY <1>0, <2>1, <2>2, <3>3, ArrayAt
      <4> QED BY <3>1, <3>3, <4>1
    <3> QED BY <2>1, <3>2, <3>3
  <2> QED BY <1>2, <2>1, <2>3, <2>4
<1>14. CASE Lost(i)
  <2>1. /\ i \in 2..Len(answer) /\ ~Whole(answer[i - 1]) /\ index_object = 0 /\ ~jump
        /\ j \in {Opens(i, 1), Opens(i, 1) + Len(Object(i, 1)) - 3}
    BY <1>1, <1>14 DEF Lost
  <2>2. i \in DOMAIN answer /\ i - 1 \in DOMAIN answer
    BY <1>7, <1>9, <2>1
  <2>3. phase' \in {"thrown", "undefined"}
    <3>1. SUFFICES ASSUME ~jump, j + size - 1 <= Len(text),
                          HasId(SubSeq(text, j, j + size - 1))
                   PROVE  FALSE
      BY <1>2, <2>1
    <3> QED BY <1>0, <1>9, <2>1, <2>2, <3>1, LostText
  <2> QED BY <1>4, <1>11, <2>1, <2>2, <2>3
<1> QED BY <1>6, <1>12, <1>13, <1>14

\* A pair is what it has at its two places.
LEMMA OfTwo ==
  ASSUME NEW S, NEW t \in Seq(S), NEW a \in S, NEW b \in S, Len(t) = 2, t[1] = a, t[2] = b
  PROVE  t = <<a, b>>
OBVIOUS

\* One more behind one.
LEMMA Second ==
  ASSUME NEW S, NEW s \in Seq(S), NEW a \in S, NEW b \in S, Len(s) = 1, s[1] = a
  PROVE  Append(s, b) = <<a, b>>
<1> DEFINE t == Append(s, b)
<1>1. /\ t \in Seq(S) /\ Len(t) = Len(s) + 1
      /\ \A x \in 1..Len(s) : t[x] = s[x]
      /\ t[Len(s) + 1] = b
  BY AppendedTo
<1> HIDE DEF t
<1>2. Len(t) = 2
  BY <1>1
<1>3. 1 \in 1..Len(s) /\ Len(s) + 1 = 2
  OBVIOUS
<1>4. t[1] = a
  BY <1>1, <1>3
<1>5. t[2] = b
  BY <1>1, <1>3
<1>6. t = <<a, b>>
  BY <1>1, <1>2, <1>4, <1>5, OfTwo
<1> QED BY <1>6 DEF t

\* The meta behind the id.
LEMMA Pair ==
  ASSUME NEW S, NEW a \in S, NEW b \in S
  PROVE  Append(<<a>>, b) = <<a, b>>
<1>1. <<a>> \in Seq(S) /\ Len(<<a>>) = 1 /\ <<a>>[1] = a
  OBVIOUS
<1> QED BY <1>1, Second

\* What a step past an object has in common.
LEMMA AdvanceStep ==
  ASSUME WireInv, NEW skip \in 0..1, Advance(skip)
  PROVE  /\ phase = "object" /\ phase' = "read" /\ n' = j + size + skip /\ j' = n' + 1
         /\ answer' = answer /\ text' = text /\ begins' = begins /\ known' = known
         /\ \A i, k : /\ Object(i, k)' = Object(i, k) /\ From(i, k)' = From(i, k)
                      /\ Opens(i, k)' = Opens(i, k)
         /\ \A m : Whole(answer[m])' = Whole(answer[m])
         /\ TextInv' /\ known \in Known
         /\ j \in Nat \ {0} /\ size \in Nat /\ index_object \in 0..2 /\ jump \in BOOLEAN
         /\ \E i \in DOMAIN answer : Parsing(i) \/ Astray(i)
<1>0. WireTypeOK /\ TextInv /\ ReaderInv
  BY DEF WireInv
<1>1. /\ phase = "object" /\ phase' = "read" /\ n' = j + size + skip /\ j' = n' + 1
      /\ UNCHANGED writerVars
  BY DEF Advance
<1>2. /\ answer' = answer /\ text' = text /\ begins' = begins /\ known' = known
      /\ \A i, k : /\ Object(i, k)' = Object(i, k) /\ From(i, k)' = From(i, k)
                   /\ Opens(i, k)' = Opens(i, k)
  BY <1>1, SameText
<1>3. \A m : Whole(answer[m])' = Whole(answer[m])
  BY <1>2 DEF Whole
<1>4. PICK i \in DOMAIN begins : Parsing(i) \/ Astray(i)
  BY <1>0, <1>1 DEF ReaderInv, Reading, Lost
<1>5. i \in DOMAIN answer
  BY <1>0, <1>4, Indices DEF Parsing, Astray
<1>6. answer # <<>>
  BY <1>5
<1>7. TextInv'
  BY <1>0, <1>1, <1>6, SameTextInv
<1>8. known \in Known
  BY <1>0, <1>1 DEF TextInv
<1>9. j \in Nat \ {0} /\ size \in Nat /\ index_object \in 0..2 /\ jump \in BOOLEAN
  BY <1>0 DEF WireTypeOK
<1> QED BY <1>1, <1>2, <1>3, <1>4, <1>5, <1>7, <1>8, <1>9

\* An id is looked up.
LEMMA ReadIdStep ==
  ASSUME WireInv, ReadId
  PROVE  TextInv' /\ ReaderInv'
<1>0. WireTypeOK /\ TextInv /\ ReaderInv
  BY DEF WireInv
<1>1. /\ index_object = 0 /\ index_object' = 1 /\ event' = <<json_temp>>
      /\ jump' = (json_temp \in known) /\ noted' = noted \cup ({json_temp} \cap known)
      /\ added' = added /\ Advance(0)
  BY DEF ReadId
<1>2. /\ phase' = "read" /\ n' = j + size + 0 /\ j' = n' + 1 /\ phase = "object"
      /\ answer' = answer /\ text' = text /\ begins' = begins /\ known' = known
      /\ \A i, k : From(i, k)' = From(i, k)
      /\ \A m : Whole(answer[m])' = Whole(answer[m])
      /\ TextInv' /\ j \in Nat /\ size \in Nat
  BY <1>1, AdvanceStep
<1>3. PICK i \in DOMAIN answer : Parsing(i)
  <2>1. \E i \in DOMAIN answer : Parsing(i) \/ Astray(i)
    BY <1>1, AdvanceStep
  <2> QED BY <1>1, <2>1 DEF Astray
<1>4. /\ i <= Len(answer) /\ ReadUpTo(i) /\ j = Opens(i, 0) /\ size = Len(Object(i, 0))
      /\ ~jump => json_temp = Object(i, 0)
  BY <1>1, <1>2, <1>3 DEF Parsing
<1>5. /\ \A m \in 1..(i - 1) : Whole(answer[m])
      /\ InOrder(added, New(i - 1)) /\ ~jump
      /\ noted = known \cap {answer[m].id : m \in 1..(i - 1)}
  BY <1>1, <1>4 DEF ReadUpTo
<1>6. json_temp = answer[i].id
  BY <1>4, <1>5, Objects
<1>7. n' = From(i, 1)
  <2>1. 0 \in 0..1 /\ 0 + 1 = 1
    OBVIOUS
  <2>2. Opens(i, 0) + Len(Object(i, 0)) = From(i, 0 + 1)
    BY <1>0, <2>1, Follows
  <2>3. j + size + 0 = j + size
    BY <1>2
  <2> QED BY <1>2, <1>4, <2>1, <2>2, <2>3
<1>8. i \in DOMAIN begins' /\ i \in Nat
  <2>1. i \in 1..Len(answer) /\ Len(begins) = Len(answer) + 1 /\ Len(answer) \in Nat
    BY <1>0, Lines DEF WireTypeOK
  <2>2. DOMAIN begins = 1..Len(begins)
    BY <1>0 DEF WireTypeOK
  <2> QED BY <1>2, <2>1, <2>2
<1>9. noted' = known \cap {answer[m].id : m \in 1..i}
  <2>1. \A m : m \in 1..i <=> m \in 1..(i - 1) \/ m = i
    <3>1. i \in Nat /\ i >= 1
      BY <1>0, Lines
    <3> QED BY <3>1
  <2>2. noted' = noted \cup ({answer[i].id} \cap known)
    BY <1>1, <1>6
  <2> QED BY <1>5, <2>1, <2>2
<1>10. ReadUpTo(i)'
  <2>1. (\A m \in 1..(i - 1) : Whole(answer[m]))'
    BY <1>2, <1>5
  <2>2. InOrder(added, New(i - 1))'
    BY <1>1, <1>2, <1>5 DEF InOrder, New
  <2>3. (noted = known \cap {answer[m].id : m \in 1..(IF index_object = 0 THEN i - 1 ELSE i)})'
    BY <1>1, <1>2, <1>9
  <2>4. (jump = (answer[i].id \in known))' /\ event' = <<answer[i].id>>
    BY <1>1, <1>2, <1>6
  <2>5. index_object' # 0 /\ index_object' # 2
    BY <1>1
  <2> QED BY <1>2, <2>1, <2>2, <2>3, <2>4, <2>5 DEF ReadUpTo
<1>11. Reading(i)'
  <2>1. (i > Len(answer) => index_object = 0)'
    <3>1. i <= Len(answer') /\ Len(answer') \in Nat
      BY <1>0, <1>2, <1>4 DEF WireTypeOK
    <3> QED BY <1>8, <3>1
  <2>2. (n = From(i, index_object))'
    <3>1. From(i, index_object)' = From(i, 1)
      BY <1>1, <1>2 DEF From, Object
    <3> QED BY <1>7, <3>1
  <2> QED BY <1>2, <1>10, <2>1, <2>2 DEF Reading
<1>12. ReaderInv'
  BY <1>2, <1>8, <1>11 DEF ReaderInv
<1> QED BY <1>2, <1>12

\* A meta is kept.
LEMMA ReadMetaStep ==
  ASSUME WireInv, ReadMeta
  PROVE  TextInv' /\ ReaderInv'
<1>0. WireTypeOK /\ TextInv /\ ReaderInv
  BY DEF WireInv
<1>1. /\ index_object = 1 /\ index_object' = 2
      /\ event' = IF jump THEN event ELSE Append(event, json_temp)
      /\ jump' = jump /\ noted' = noted /\ added' = added /\ Advance(0)
  BY DEF ReadMeta
<1>2. /\ phase' = "read" /\ n' = j + size + 0 /\ j' = n' + 1 /\ phase = "object"
      /\ answer' = answer /\ text' = text /\ begins' = begins /\ known' = known
      /\ \A i, k : From(i, k)' = From(i, k)
      /\ \A m : Whole(answer[m])' = Whole(answer[m])
      /\ TextInv' /\ j \in Nat /\ size \in Nat
  BY <1>1, AdvanceStep
<1>3. PICK i \in DOMAIN answer : Parsing(i)
  <2>1. \E i \in DOMAIN answer : Parsing(i) \/ Astray(i)
    BY <1>1, AdvanceStep
  <2> QED BY <1>1, <2>1 DEF Astray
<1>4. /\ i <= Len(answer) /\ ReadUpTo(i) /\ j = Opens(i, 1) /\ size = Len(Object(i, 1))
      /\ ~jump => json_temp = Object(i, 1)
  BY <1>1, <1>2, <1>3 DEF Parsing
<1>5. /\ \A m \in 1..(i - 1) : Whole(answer[m])
      /\ InOrder(added, New(i - 1))
      /\ noted = known \cap {answer[m].id : m \in 1..i}
      /\ jump = (answer[i].id \in known)
      /\ ~jump => event = <<answer[i].id>>
  BY <1>1, <1>4 DEF ReadUpTo
<1>6. ~jump => event' = <<answer[i].id, answer[i].meta>>
  <2>1. ~jump => event' = Append(<<answer[i].id>>, answer[i].meta)
    BY <1>1, <1>4, <1>5, Objects
  <2>2. answer[i].id \in Seq(Chars) /\ answer[i].meta \in Seq(Chars)
    BY <1>0, Lines, EventShape
  <2>3. Append(<<answer[i].id>>, answer[i].meta) = <<answer[i].id, answer[i].meta>>
    BY <2>2, Pair
  <2> QED BY <2>1, <2>2, <2>3
<1>7. n' = From(i, 2)
  <2>1. 1 \in 0..1 /\ 1 + 1 = 2
    OBVIOUS
  <2>2. Opens(i, 1) + Len(Object(i, 1)) = From(i, 1 + 1)
    BY <1>0, <2>1, Follows
  <2>3. j + size + 0 = j + size
    BY <1>2
  <2> QED BY <1>2, <1>4, <2>1, <2>2, <2>3
<1>8. i \in DOMAIN begins' /\ i \in Nat
  <2>1. i \in 1..Len(answer) /\ Len(begins) = Len(answer) + 1 /\ Len(answer) \in Nat
    BY <1>0, Lines DEF WireTypeOK
  <2>2. DOMAIN begins = 1..Len(begins)
    BY <1>0 DEF WireTypeOK
  <2> QED BY <1>2, <2>1, <2>2
<1>10. ReadUpTo(i)'
  <2>1. (\A m \in 1..(i - 1) : Whole(answer[m]))'
    BY <1>2, <1>5
  <2>2. InOrder(added, New(i - 1))'
    BY <1>1, <1>2, <1>5 DEF InOrder, New
  <2>3. (noted = known \cap {answer[m].id : m \in 1..(IF index_object = 0 THEN i - 1 ELSE i)})'
    BY <1>1, <1>2, <1>5
  <2>4. (jump = (answer[i].id \in known))' /\ (~jump' => event' = <<answer[i].id, answer[i].meta>>)
    BY <1>1, <1>2, <1>5, <1>6
  <2>5. index_object' # 0 /\ index_object' # 1
    BY <1>1
  <2> QED BY <1>2, <2>1, <2>2, <2>3, <2>4, <2>5 DEF ReadUpTo
<1>11. Reading(i)'
  <2>1. (i > Len(answer) => index_object = 0)'
    <3>1. i <= Len(answer') /\ Len(answer') \in Nat
      BY <1>0, <1>2, <1>4 DEF WireTypeOK
    <3> QED BY <1>8, <3>1
  <2>2. (n = From(i, index_object))'
    <3>1. From(i, index_object)' = From(i, 2)
      BY <1>1, <1>2 DEF From, Object
    <3> QED BY <1>7, <3>1
  <2> QED BY <1>2, <1>10, <2>1, <2>2 DEF Reading
<1>12. ReaderInv'
  BY <1>2, <1>8, <1>11 DEF ReaderInv
<1> QED BY <1>2, <1>12

\* The event is added, or left out because the buffer has it; or the data was
\* the id of the next event, and the reader is lost.
LEMMA ReadDataStep ==
  ASSUME WireInv, ReadData
  PROVE  TextInv' /\ ReaderInv'
<1>0. WireTypeOK /\ TextInv /\ ReaderInv
  BY DEF WireInv
<1>1. /\ index_object = 2 /\ index_object' = 0 /\ jump' = FALSE /\ event' = event /\ noted' = noted
      /\ added' = IF jump THEN added
                  ELSE Append(added, [id |-> event[1], meta |-> event[2], data |-> json_temp])
      /\ Advance(1)
  BY DEF ReadData
<1>2. /\ phase' = "read" /\ n' = j + size + 1 /\ j' = n' + 1 /\ phase = "object"
      /\ answer' = answer /\ text' = text /\ begins' = begins /\ known' = known
      /\ \A i, k : /\ From(i, k)' = From(i, k) /\ Object(i, k)' = Object(i, k)
      /\ \A m : Whole(answer[m])' = Whole(answer[m])
      /\ TextInv' /\ j \in Nat /\ size \in Nat
  BY <1>1, AdvanceStep
<1>3. PICK i \in DOMAIN answer : Parsing(i) \/ Astray(i)
  BY <1>1, AdvanceStep
<1>4. /\ i \in Nat \ {0} /\ i <= Len(answer) /\ i + 1 \in DOMAIN begins /\ Len(answer) \in Nat
      /\ From(i + 1, 0) = begins[i + 1]
      /\ i < Len(answer) => i + 1 \in DOMAIN answer
  BY <1>0, BeginsNext DEF WireTypeOK
<1>5. CASE Parsing(i)
  <2>1. /\ ReadUpTo(i) /\ Whole(answer[i]) /\ j = Opens(i, 2) /\ size = Len(Object(i, 2))
        /\ ~jump => json_temp = Object(i, 2)
    BY <1>1, <1>2, <1>5 DEF Parsing
  <2>2. /\ \A m \in 1..(i - 1) : Whole(answer[m])
        /\ InOrder(added, New(i - 1))
        /\ noted = known \cap {answer[m].id : m \in 1..i}
        /\ jump = (answer[i].id \in known)
        /\ ~jump => event = <<answer[i].id, answer[i].meta>>
    BY <1>1, <2>1 DEF ReadUpTo
  <2>3. n' = From(i + 1, 0)
    <3>1. begins[i + 1] = Opens(i, 2) + Len(Object(i, 2)) + 1
      <4>1. 2 \in 0..2 /\ answer[i].data # <<>>
        BY <2>1 DEF Whole
      <4> QED BY <1>0, <4>1, ObjectAt
    <3> QED BY <1>2, <1>4, <2>1, <3>1
  <2>4. InOrder(added', New(i))
    <3> DEFINE m == i - 1
    <3>1. m \in Nat /\ m + 1 = i
      BY <1>4
    <3> HIDE DEF m
    <3>2. InOrder(added, New(m))
      BY <2>2 DEF m
    <3>3. CASE jump
      <4>1. answer[m + 1].id \in known
        BY <2>2, <3>1, <3>3
      <4>2. New(m + 1) = New(m)
        BY <3>1, <4>1, NewNext
      <4> QED BY <1>1, <3>1, <3>2, <3>3, <4>2
    <3>4. CASE ~jump
      <4>1. Whole(answer[m + 1]) /\ answer[m + 1].id \notin known
        BY <2>1, <2>2, <3>1, <3>4
      <4>2. New(m + 1) = New(m) \cup {m + 1} /\ New(m) \in SUBSET (1..m)
        BY <3>1, <4>1, NewNext
      <4> DEFINE Added == [id : Seq(Chars), meta : Seq(Chars), data : Seq(Chars)]
      <4>3. answer[i] \in AllEvents
        BY <1>0, Lines
      <4>4. answer[i] = [id |-> event[1], meta |-> event[2], data |-> json_temp]
        <5>1. event[1] = answer[i].id /\ event[2] = answer[i].meta
          BY <2>2, <3>4
        <5>2. json_temp = answer[i].data
          BY <2>1, <3>4, Objects
        <5>3. answer[i] = [id |-> answer[i].id, meta |-> answer[i].meta, data |-> answer[i].data]
          BY <4>3 DEF AllEvents, Events
        <5> QED BY <5>1, <5>2, <5>3
      <4>5. answer[m + 1] \in Added
        <5>1. answer[i].id \in Seq(Chars) /\ answer[i].meta \in Seq(Chars) /\ answer[i].data \in Seq(Chars)
          BY <4>3, EventShape
        <5>2. answer[i] = [id |-> answer[i].id, meta |-> answer[i].meta, data |-> answer[i].data]
          BY <4>3 DEF AllEvents, Events
        <5>3. answer[i] \in Added
          BY <5>1, <5>2
        <5> QED BY <3>1, <5>3
      <4>6. added \in Seq(Added)
        BY <1>0 DEF WireTypeOK
      <4> HIDE DEF Added
      <4>7. InOrder(Append(added, answer[m + 1]), New(m) \cup {m + 1})
        BY <3>1, <3>2, <4>2, <4>5, <4>6, InOrderAppend
      <4>8. added' = Append(added, answer[m + 1])
        BY <1>1, <3>1, <3>4, <4>4
      <4> QED BY <3>1, <4>2, <4>7, <4>8
    <3> QED BY <2>2, <3>3, <3>4
  <2>5. i + 1 - 1 = i
    BY <1>4
  <2>6. ReadUpTo(i + 1)'
    <3> DEFINE r == i + 1
    <3>0. r - 1 = i
      BY <1>4
    <3> HIDE DEF r
    <3>1. (\A m \in 1..(r - 1) : Whole(answer[m]))'
      <4>1. \A m \in 1..i : m \in 1..(i - 1) \/ m = i
        BY <1>4
      <4> QED BY <1>2, <2>1, <2>2, <3>0, <4>1
    <3>2. InOrder(added, New(r - 1))'
      BY <1>2, <2>4, <3>0 DEF InOrder, New
    <3>3. (noted = known \cap {answer[m].id : m \in 1..(IF index_object = 0 THEN r - 1 ELSE r)})'
      BY <1>1, <1>2, <2>2, <3>0
    <3>4. index_object' = 0 /\ ~jump'
      BY <1>1
    <3>5. ~(index_object' > 0) /\ index_object' # 1 /\ index_object' # 2
      BY <3>4
    <3>6. ReadUpTo(r)'
      BY <3>1, <3>2, <3>3, <3>4, <3>5 DEF ReadUpTo
    <3> QED BY <3>6 DEF r
  <2>7. Reading(i + 1)'
    <3>1. From(i + 1, index_object)' = From(i + 1, 0)
      BY <1>1, <1>2 DEF From, Object
    <3> QED BY <1>1, <1>2, <2>3, <2>6, <3>1 DEF Reading
  <2>8. ReaderInv'
    BY <1>2, <1>4, <2>7 DEF ReaderInv
  <2> QED BY <1>2, <2>8
<1>6. CASE Astray(i)
  <2>1. /\ ~Whole(answer[i]) /\ i < Len(answer) /\ j = Opens(i + 1, 0) /\ size = IdSize
    BY <1>2, <1>6 DEF Astray
  <2>2. i + 1 \in DOMAIN answer /\ i + 1 \in 2..Len(answer) /\ i + 1 - 1 = i
    BY <1>4, <2>1
  <2>3. n' = From(i + 1, 1) + 1
    <3>1. 0 \in 0..1 /\ 0 + 1 = 1
      OBVIOUS
    <3>2. Opens(i + 1, 0) + Len(Object(i + 1, 0)) = From(i + 1, 0 + 1)
      BY <1>0, <2>2, <3>1, Follows
    <3>3. Len(Object(i + 1, 0)) = IdSize
      <4>1. answer[i + 1] \in AllEvents
        BY <1>0, <2>2, Lines
      <4>2. Len(answer[i + 1].id) = IdSize
        BY <4>1, EventShape
      <4> QED BY <4>2, Objects
    <3> QED BY <1>2, <2>1, <3>1, <3>2, <3>3
  <2>4. Lost(i + 1)'
    <3>1. From(i + 1, 1)' = From(i + 1, 1)
      BY <1>2
    <3> QED BY <1>1, <1>2, <2>1, <2>2, <2>3, <3>1 DEF Lost
  <2>5. ReaderInv'
    BY <1>2, <1>4, <2>4 DEF ReaderInv
  <2> QED BY <1>2, <2>5
<1> QED BY <1>3, <1>5, <1>6

-----------------------------------------------------------------------------
\* The theorems about the answer

\* Nothing is read while the answer is written.
LEMMA WriteStep ==
  ASSUME WireInv, WriteLine \/ Reply
  PROVE  TextInv' /\ ReaderInv'
<1>0. WireTypeOK /\ TextInv /\ ReaderInv
  BY DEF WireInv
<1>1. /\ phase = "write" /\ phase' \in {"write", "begin"}
      /\ j' = j /\ n' = n /\ UNCHANGED eventVars
  BY DEF WriteLine, Reply
<1>2. /\ j' = 1 /\ n' = 1 /\ index_object' = 0 /\ ~jump' /\ added' = <<>> /\ noted' = {}
  BY <1>0, <1>1 DEF ReaderInv, eventVars
<1>3. ReaderInv'
  BY <1>1, <1>2 DEF ReaderInv
<1>4. TextInv'
  BY <1>0, WriteText, ReplyText
<1> QED BY <1>3, <1>4

\* Nothing changes.
LEMMA StutterStep ==
  ASSUME WireInv, UNCHANGED wireVars
  PROVE  TextInv' /\ ReaderInv'
<1>0. TextInv /\ ReaderInv
  BY DEF WireInv
<1>1. /\ UNCHANGED writerVars /\ UNCHANGED eventVars
      /\ phase' = phase /\ j' = j /\ n' = n /\ size' = size /\ json_temp' = json_temp
  BY DEF wireVars
<1>2. /\ answer' = answer /\ text' = text /\ begins' = begins /\ known' = known
      /\ index_object' = index_object /\ jump' = jump /\ event' = event
      /\ added' = added /\ noted' = noted
  BY <1>1 DEF writerVars, eventVars
<1>3. TextInv'
  <2>1. \A i \in DOMAIN answer : Stands(Line(answer[i]), begins[i])' = Stands(Line(answer[i]), begins[i])
    BY <1>2 DEF Stands
  <2>2. (known \in Known)' = (known \in Known)
    BY <1>2 DEF Known
  <2> QED BY <1>0, <1>1, <1>2, <2>1, <2>2 DEF TextInv
<1>4. ReaderInv'
  <2>1. \A i : ReadUpTo(i)' = ReadUpTo(i)
    BY <1>2 DEF ReadUpTo, New, InOrder
  <2>2. \A i : /\ Reading(i)' = Reading(i) /\ Parsing(i)' = Parsing(i)
               /\ Astray(i)' = Astray(i) /\ Lost(i)' = Lost(i)
    <3>1. \A i, k : /\ Object(i, k)' = Object(i, k) /\ From(i, k)' = From(i, k)
                    /\ Opens(i, k)' = Opens(i, k)
      BY <1>1, SameText
    <3>2. \A i : Reading(i)' = Reading(i)
      BY <1>1, <1>2, <2>1, <3>1 DEF Reading
    <3>3. \A i : Parsing(i)' = Parsing(i)
      BY <1>1, <1>2, <2>1, <3>1 DEF Parsing
    <3>4. \A i : Astray(i)' = Astray(i)
      BY <1>1, <1>2, <3>1 DEF Astray
    <3>5. \A i : Lost(i)' = Lost(i)
      BY <1>1, <1>2, <3>1 DEF Lost
    <3> QED BY <3>2, <3>3, <3>4, <3>5
  <2>3. InOrder(added, New(Len(answer)))' = InOrder(added, New(Len(answer)))
    BY <1>2 DEF InOrder, New
  <2> QED BY <1>0, <1>1, <1>2, <2>2, <2>3 DEF ReaderInv
<1> QED BY <1>3, <1>4

\* The invariant at the beginning.
LEMMA WireInitInv == ASSUME WireInit PROVE WireInv
<1>1. /\ answer = <<>> /\ text = <<>> /\ begins = <<1>> /\ phase = "write"
      /\ j = 1 /\ n = 1 /\ index_object = 0 /\ ~jump /\ added = <<>> /\ noted = {}
  BY DEF WireInit
<1>2. TextInv
  <2>1. DOMAIN answer = {} /\ begins[1] = 1 /\ Len(begins) = 1 /\ Len(text) + 1 = 1
    BY <1>1
  <2> QED BY <1>1, <2>1 DEF TextInv
<1>3. ReaderInv
  BY <1>1 DEF ReaderInv
<1> QED BY <1>2, <1>3, WireTypeInit DEF WireInv

\* The invariant is inductive.
LEMMA WireStep == ASSUME WireInv, [WireNext]_wireVars PROVE WireInv'
<1>1. WireTypeOK'
  BY WireTypeNext DEF WireInv
<1>2. TextInv' /\ ReaderInv'
  BY WriteStep, BeginStep, FindStep, EndStep, ParseStep, ReadIdStep, ReadMetaStep, ReadDataStep,
     StutterStep DEF WireNext
<1> QED BY <1>1, <1>2 DEF WireInv

\* What the invariant says of answers whose events all have an object for data.
LEMMA WholeFromInv == ASSUME WireInv PROVE WholeAnswersAreRead
<1>0. WireTypeOK /\ ReaderInv
  BY DEF WireInv
<1> SUFFICES ASSUME \A i \in DOMAIN answer : Whole(answer[i])
             PROVE  /\ phase \notin {"thrown", "undefined"}
                    /\ \E m \in 0..Len(answer) : InOrder(added, New(m))
                    /\ phase = "done" => /\ InOrder(added, New(Len(answer)))
                                         /\ noted = known \cap {answer[i].id : i \in DOMAIN answer}
  BY DEF WholeAnswersAreRead
<1>1. phase \notin {"thrown", "undefined"}
  BY <1>0 DEF ReaderInv
<1>2. phase = "done" => /\ InOrder(added, New(Len(answer)))
                        /\ noted = known \cap {answer[i].id : i \in DOMAIN answer}
  BY <1>0 DEF ReaderInv
<1>3. Len(answer) \in Nat
  BY <1>0 DEF WireTypeOK
<1>4. \E m \in 0..Len(answer) : InOrder(added, New(m))
  <2>1. CASE phase \in {"write", "begin"}
    <3>1. added = <<>>
      BY <1>0, <2>1 DEF ReaderInv
    <3>2. New(0) = {}
      BY DEF New
    <3>3. InOrder(added, New(0))
      BY <3>1, <3>2, InOrderNone
    <3> QED BY <1>3, <3>3
  <2>2. CASE phase \in {"read", "parse", "object"}
    <3>1. PICK i \in DOMAIN begins : Reading(i) \/ Parsing(i) \/ Astray(i) \/ Lost(i)
      BY <1>0, <2>2 DEF ReaderInv
    <3>2. /\ i \in Nat \ {0} /\ (i <= Len(answer) => i \in DOMAIN answer)
          /\ (i > Len(answer) => i = Len(answer) + 1)
      BY <1>0, <3>1, Indices
    <3>3. ~Astray(i)
      BY <3>2 DEF Astray
    <3>4. ~Lost(i)
      <4>1. i \in 2..Len(answer) => i - 1 \in 1..Len(answer)
        BY <1>3
      <4>2. DOMAIN answer = 1..Len(answer)
        BY <1>0 DEF WireTypeOK
      <4> QED BY <4>1, <4>2 DEF Lost
    <3>5. InOrder(added, New(i - 1))
      BY <3>1, <3>3, <3>4 DEF Reading, Parsing, ReadUpTo
    <3>6. i - 1 \in 0..Len(answer)
      BY <1>3, <3>2
    <3> QED BY <3>5, <3>6
  <2>3. CASE phase = "done"
    <3>1. Len(answer) \in 0..Len(answer)
      BY <1>3
    <3> QED BY <1>2, <2>3, <3>1
  <2> QED BY <1>0, <1>1, <2>1, <2>2, <2>3 DEF WireTypeOK
<1> QED BY <1>1, <1>2, <1>4

\* Types of writer and reader; where each event of the answer stands in its text
\* (get_events_json, tasker_manager.cpp:282-315); and of the reader (getevent(),
\* connector_manager.h:865-921), that all events before the one it is at were read
\* as they were written, or that it looks for data where the event has none and has
\* something else before it that it cannot take for an event.
THEOREM WireInvariant == WireSpec => []WireInv
<1>1. WireInit => WireInv
  BY WireInitInv
<1>2. WireInv /\ [WireNext]_wireVars => WireInv'
  BY WireStep
<1> QED BY <1>1, <1>2, PTL DEF WireSpec

\* If every event of an answer has an object for data, the reader gets each as it was
\* written: those in the buffer are noted, the others added in order, and nothing is
\* thrown (connector_manager.h:881-921), whatever the sizes and the number of events.
THEOREM WholeAnswersRead == WireSpec => []WholeAnswersAreRead
<1>1. WireInv => WholeAnswersAreRead
  BY WholeFromInv
<1> QED BY <1>1, WireInvariant, PTL

\* Whatever the events have for data, a reader that comes to the end of the answer has
\* added each task as the peer holds it and can only have left out the last event
\* (connector_manager.h:904-921): no size, brace or line end is ever taken for another.
THEOREM NothingMisread == WireSpec => []NoSilentMisread
<1>1. WireInv => NoSilentMisread
  BY DEF WireInv, ReaderInv, NoSilentMisread
<1> QED BY <1>1, WireInvariant, PTL
=============================================================================
