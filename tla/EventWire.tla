------------------------------ MODULE EventWire ------------------------------
(***************************************************************************)
(* The answer to a poll as text, from get_events_json (tasker_manager.cpp: *)
(* 282-315), which writes it, to the loop in getevent() (connector_manager.*)
(* h:865-921), which reads it.  Connector takes the events of an answer as *)
(* a set; here is what the two ends make of sizes, braces and line ends.   *)
(*                                                                         *)
(* Every object is preceded by its size in decimal; an event is its id,    *)
(* its meta and, if it has one, its data, and a line end.  The reader      *)
(* counts objects: it takes every third one for data.  Positions count     *)
(* from 1.  A text keeps the characters that the reader tells apart, and   *)
(* for all others one that names the event they belong to.                 *)
(***************************************************************************)
EXTENDS Integers, Sequences, FiniteSets

CONSTANTS
  Hashes,     \* one character per event that stands for its contents
  MaxEvents,  \* bound on the events of an answer
  IdSize,     \* size of {"id":"<hash>"}
  MetaSizes,  \* sizes of a meta
  DataSizes   \* sizes of a data that is an object

LBrace == "{"
RBrace == "}"
LBracket == "["
RBracket == "]"
EOL == "\n"

Brackets == {LBrace, RBrace, LBracket, RBracket}

Digit == <<"0", "1", "2", "3", "4", "5", "6", "7", "8", "9">>
Digits == {Digit[k] : k \in 1..10}

MaxInt == 2147483647   \* sizes are kept in an int

ASSUME EventWireAssumption ==
  /\ Hashes \cap (Digits \cup Brackets \cup {EOL}) = {}
  /\ MaxEvents \in Nat
  /\ IdSize \in 3..MaxInt
  /\ MetaSizes \cup DataSizes \subseteq 4..MaxInt

VARIABLES
  answer,       \* the events that were written
  text,         \* respon, then respon_str
  begins,       \* history: where each event begins in text, and the next one would
  known,        \* the ids in the buffer before
  phase, j, n,  \* where writer and reader are, its loop index, where the next size starts
  size,         \* int_size_json
  json_temp,    \* the object that was found, as text
  index_object, \* 0, 1, 2: the next object is an id, a meta, a data
  jump,         \* the event is in the buffer already
  event,        \* id and meta of the event being read
  added,        \* what was given to m_task.add()
  noted         \* the ids that check_id() has noted

writerVars == <<answer, text, begins, known>>
eventVars == <<index_object, jump, event, added, noted>>
wireVars == <<writerVars, phase, j, n, size, json_temp, eventVars>>

-----------------------------------------------------------------------------
\* Texts of JSON values: {"..."}, {..{}}, and data that is no object.

Fill(h, m) == [k \in 1..m |-> h]

Flat(h, m) == <<LBrace>> \o Fill(h, m - 2) \o <<RBrace>>

Nested(h, m) == <<LBrace>> \o Fill(h, m - 4) \o <<LBrace, RBrace, RBrace>>

\* No data at all, objects, a number, a string, an array of an object.
Datas(h) == {<<>>, <<LBrace, RBrace>>, <<"7", "3">>, Fill(h, 9),
             <<LBracket>> \o Flat(h, 5) \o <<RBracket>>}
              \cup {Nested(h, s) : s \in DataSizes}

Events(h) == {[id |-> Flat(h, IdSize), meta |-> Nested(h, s), data |-> d] :
                s \in MetaSizes, d \in Datas(h)}

Whole(e) == e.data # <<>> /\ e.data[1] = LBrace

-----------------------------------------------------------------------------
\* std::to_string and atoi

Power == <<1, 10, 100, 1000, 10000, 100000, 1000000, 10000000, 100000000, 1000000000>>

\* How many digits an int has that is not negative.
Width(m) == CHOOSE w \in 1..10 : /\ w = 1 \/ Power[w] <= m
                                 /\ w = 10 \/ m < Power[w + 1]

Decimal(m) == [k \in 1..Width(m) |-> Digit[((m \div Power[Width(m) - k + 1]) % 10) + 1]]

Value(c) == CHOOSE d \in 0..9 : Digit[d + 1] = c

\* Blanks, digits, and whatever comes after them, in ten characters at most.
Atoi(t) ==
  LET blank    == IF t # <<>> /\ t[1] = EOL THEN 1 ELSE 0
      Leads(k) == \A i \in 1..k : blank + i \in DOMAIN t /\ t[blank + i] \in Digits
      value[k \in 0..10] == IF k = 0 THEN 0
                            ELSE IF Leads(k) THEN 10 * value[k - 1] + Value(t[blank + k])
                            ELSE value[k - 1]
  IN  value[10]

-----------------------------------------------------------------------------
\* The writer

Sized(t) == Decimal(Len(t)) \o t

\* Mutant: str_data keeps the data of the event before.
LineStale(e) ==
  LET data == IF e.data = <<>> /\ answer # <<>> THEN answer[Len(answer)].data ELSE e.data
  IN  Sized(e.id) \o Sized(e.meta) \o (IF data = <<>> THEN <<>> ELSE Sized(data)) \o <<EOL>>

\* One event ("\0" adds no character to a std::string).
Line(e) ==
  Sized(e.id) \o Sized(e.meta) \o (IF e.data = <<>> THEN <<>> ELSE Sized(e.data)) \o <<EOL>>

\* The next event that is busy and not in process, with a hash of its own.
WriteLine ==
  /\ phase = "write" /\ Len(answer) < MaxEvents
  /\ \E h \in Hashes : \E e \in Events(h) :
       /\ \A i \in DOMAIN answer : answer[i].id # e.id
       /\ answer' = Append(answer, e)
       /\ text' = text \o Line(e)
  /\ begins' = Append(begins, Len(text') + 1)
  /\ UNCHANGED <<known, phase, j, n, size, json_temp, eventVars>>

\* What the buffer may have: an event is there because it was read before.
Known == SUBSET ({Flat(h, IdSize) : h \in Hashes}
                   \ {answer[i].id : i \in {k \in DOMAIN answer : ~Whole(answer[k])}})

Reply ==
  /\ phase = "write" /\ phase' = "begin"
  /\ text' = IF text = <<>> THEN <<LBrace, RBrace>> ELSE text
  /\ known' \in Known
  /\ UNCHANGED <<answer, begins, j, n, size, json_temp, eventVars>>

-----------------------------------------------------------------------------
\* The reader

At(t, c) == {k \in DOMAIN t : t[k] = c}

\* Braces that are open after the k-th character.
Depth(t, k) == Cardinality({i \in At(t, LBrace) : i <= k}) - Cardinality({i \in At(t, RBrace) : i <= k})

\* t_json::parse takes a text that is one object, with blanks behind it or not.
IsObject(t) ==
  /\ 1 \in At(t, LBrace)
  /\ \E last \in At(t, RBrace) :
       /\ Depth(t, last) = 0
       /\ \A k \in At(t, RBrace) \ {last} : Depth(t, k) > 0
       /\ \A k \in (last + 1)..Len(t) : t[k] = EOL

\* An object that has an "id".
HasId(t) == \E h \in Hashes : t = Flat(h, IdSize)

WireInit ==
  /\ answer = <<>> /\ text = <<>> /\ begins = <<1>> /\ known = {}
  /\ phase = "write" /\ j = 1 /\ n = 1 /\ size = 0 /\ json_temp = <<>>
  /\ index_object = 0 /\ jump = FALSE
  /\ event = <<>>
  /\ added = <<>> /\ noted = {}

\* {} or {"$error": ...}
Begin ==
  /\ phase = "begin" /\ phase' = IF text[1] = LBrace THEN "done" ELSE "read"
  /\ UNCHANGED <<writerVars, j, n, size, json_temp, eventVars>>

NoBrace(from, to) == \A k \in from..to : text[k] # LBrace

\* The size of the next object is what was read since n, as far as str_size_json
\* has room.
Find ==
  /\ phase = "read"
  /\ j' \in j..Len(text) /\ text[j'] = LBrace /\ NoBrace(j, j' - 1)
  /\ \/ j' - n > 10 /\ phase' = "undefined" /\ size' = size
     \/ j' - n <= 10 /\ phase' = "parse" /\ size' = Atoi(SubSeq(text, n, j' - 1))
  /\ UNCHANGED <<writerVars, n, json_temp, eventVars>>

End ==
  /\ phase = "read" /\ NoBrace(j, Len(text)) /\ phase' = "done"
  /\ UNCHANGED <<writerVars, j, n, size, json_temp, eventVars>>

\* A task that the buffer has is not parsed again.  Nobody catches what parse
\* throws, nor what taking an id from an object without one does.
Parse ==
  /\ phase = "parse"
  /\ \/ jump /\ phase' = "object" /\ UNCHANGED json_temp
     \/ ~jump /\ j + size - 1 > Len(text) /\ phase' = "undefined" /\ UNCHANGED json_temp
     \/ /\ ~jump /\ j + size - 1 <= Len(text)
        /\ json_temp' = SubSeq(text, j, j + size - 1)
        /\ phase' = IF IsObject(json_temp') /\ (index_object = 0 => HasId(json_temp'))
                    THEN "object" ELSE "thrown"
  /\ UNCHANGED <<writerVars, j, n, size, eventVars>>

\* On to what follows the object, with the loop's own j++.
Advance(skip) ==
  /\ phase = "object" /\ phase' = "read"
  /\ n' = j + size + skip /\ j' = n' + 1
  /\ UNCHANGED <<writerVars, size, json_temp>>

ReadId ==
  /\ index_object = 0 /\ index_object' = 1
  /\ event' = <<json_temp>>
  /\ jump' = (json_temp \in known)
  /\ noted' = noted \cup ({json_temp} \cap known)
  /\ UNCHANGED added
  /\ Advance(0)

ReadMeta ==
  /\ index_object = 1 /\ index_object' = 2
  /\ event' = IF jump THEN event ELSE Append(event, json_temp)
  /\ UNCHANGED <<jump, added, noted>>
  /\ Advance(0)

\* Mutant: jump is not taken back.
ReadDataKeepsJump ==
  /\ index_object = 2 /\ index_object' = 0
  /\ added' = IF jump THEN added
              ELSE Append(added, [id |-> event[1], meta |-> event[2], data |-> json_temp])
  /\ UNCHANGED <<jump, event, noted>>
  /\ Advance(1)

\* m_task.add(), unless the buffer has the event.
ReadData ==
  /\ index_object = 2 /\ index_object' = 0
  /\ added' = IF jump THEN added
              ELSE Append(added, [id |-> event[1], meta |-> event[2], data |-> json_temp])
  /\ jump' = FALSE
  /\ UNCHANGED <<event, noted>>
  /\ Advance(1)

WireNext == WriteLine \/ Reply \/ Begin \/ Find \/ End \/ Parse \/ ReadId \/ ReadMeta \/ ReadData

WireSpec == WireInit /\ [][WireNext]_wireVars

-----------------------------------------------------------------------------
(* Properties *)

\* The events up to the m-th that can be read and are not in the buffer.
New(m) == {i \in 1..m : Whole(answer[i]) /\ answer[i].id \notin known}

\* es are the events I of the answer, in their order.
InOrder(es, I) ==
  \E f \in [DOMAIN es -> I] : /\ \A p, q \in DOMAIN es : p < q => f[p] < f[q]
                              /\ \A i \in I : \E p \in DOMAIN es : f[p] = i
                              /\ \A p \in DOMAIN es : es[p] = answer[f[p]]

\* If every event has an object for data, each is read as it was written: those
\* in the buffer are noted, the others added, in order, and nothing is thrown.
WholeAnswersAreRead ==
  (\A i \in DOMAIN answer : Whole(answer[i])) =>
     /\ phase \notin {"thrown", "undefined"}
     /\ \E m \in 0..Len(answer) : InOrder(added, New(m))
     /\ phase = "done" => /\ InOrder(added, New(Len(answer)))
                          /\ noted = known \cap {answer[i].id : i \in DOMAIN answer}

\* Whatever the events have for data: when the reader comes to the end of an answer,
\* every task it added is an event as the peer holds it, and only the last event of
\* the answer can have been left out.  Otherwise it does not come to the end.
NoSilentMisread ==
  phase = "done" => /\ InOrder(added, New(Len(answer)))
                    /\ \A i \in DOMAIN answer : i < Len(answer) => Whole(answer[i])

-----------------------------------------------------------------------------
(* The inductive invariant the proofs use *)

Chars == Hashes \cup Digits \cup Brackets \cup {EOL}

AllEvents == UNION {Events(h) : h \in Hashes}

WireTypeOK ==
  /\ answer \in Seq(AllEvents) /\ text \in Seq(Chars)
  /\ begins \in Seq(Nat \ {0}) /\ Len(begins) = Len(answer) + 1
  /\ phase \in {"write", "begin", "read", "parse", "object", "done", "thrown", "undefined"}
  /\ j \in Nat \ {0} /\ n \in Nat \ {0} /\ size \in Nat
  /\ index_object \in 0..2 /\ jump \in BOOLEAN
  /\ event \in Seq(Seq(Chars)) /\ json_temp \in Seq(Chars)
  /\ index_object > 0 /\ ~jump => Len(event) = index_object
  /\ added \in Seq([id : Seq(Chars), meta : Seq(Chars), data : Seq(Chars)])

\* Text t is at position p.
Stands(t, p) == p + Len(t) - 1 <= Len(text) /\ \A k \in DOMAIN t : text[p + k - 1] = t[k]

TextInv ==
  /\ begins[1] = 1
  /\ \A i \in DOMAIN answer : /\ Stands(Line(answer[i]), begins[i])
                              /\ begins[i + 1] = begins[i] + Len(Line(answer[i]))
  /\ \/ begins[Len(begins)] = Len(text) + 1
     \/ answer = <<>> /\ text = <<LBrace, RBrace>> /\ phase \in {"begin", "done"}
  /\ phase = "begin" => text # <<>>
  /\ phase # "write" => known \in Known

\* Where object k of event i begins, with its size in front, and its own brace.
Object(i, k) == <<answer[i].id, answer[i].meta, answer[i].data>>[k + 1]
From(i, k) == begins[i] + (IF k > 0 THEN Len(Sized(Object(i, 0))) ELSE 0)
                        + (IF k > 1 THEN Len(Sized(Object(i, 1))) ELSE 0)
Opens(i, k) == From(i, k) + Len(Decimal(Len(Object(i, k))))

\* Whether the events before i are read as they were written.
ReadUpTo(i) ==
  /\ \A m \in 1..(i-1) : Whole(answer[m])
  /\ InOrder(added, New(i-1))
  /\ noted = known \cap {answer[m].id : m \in 1..(IF index_object = 0 THEN i-1 ELSE i)}
  /\ index_object = 0 => ~jump
  /\ index_object > 0 => jump = (answer[i].id \in known)
  /\ ~jump /\ index_object = 1 => event = <<answer[i].id>>
  /\ ~jump /\ index_object = 2 => event = <<answer[i].id, answer[i].meta>>

\* The reader is at the size of an object of event i, or at the end,
Reading(i) ==
  /\ phase = "read" /\ ReadUpTo(i)
  /\ i > Len(answer) => index_object = 0
  /\ n = From(i, index_object) /\ j \in {n, n + 1}

\* has found the object,
Parsing(i) ==
  /\ i <= Len(answer) /\ (index_object = 2 => Whole(answer[i]))
  /\ phase \in {"parse", "object"} /\ ReadUpTo(i)
  /\ j = Opens(i, index_object) /\ size = Len(Object(i, index_object))
  /\ phase = "object" /\ ~jump => json_temp = Object(i, index_object)

\* has found another brace where event i should have data,
Astray(i) ==
  /\ i <= Len(answer) /\ ~Whole(answer[i])
  /\ index_object = 2 /\ ~jump
  /\ \/ i < Len(answer) /\ j = Opens(i + 1, 0)
        /\ (phase = "parse" \/ (phase = "object" /\ size = IdSize))
     \/ answer[i].data # <<>> /\ answer[i].data[1] = LBracket /\ phase = "parse"
        /\ j = From(i, 2) + 2 /\ size = 7

\* or takes the meta of event i, or what is in it, for an id.
Lost(i) ==
  /\ i \in 2..Len(answer) /\ ~Whole(answer[i - 1])
  /\ index_object = 0 /\ ~jump
  /\ \/ phase = "read" /\ n = From(i, 1) + 1 /\ j = n + 1
     \/ phase = "parse" /\ j \in {Opens(i, 1), Opens(i, 1) + Len(Object(i, 1)) - 3}

ReaderInv ==
  /\ phase \in {"write", "begin"} =>
       /\ j = 1 /\ n = 1 /\ index_object = 0 /\ ~jump /\ added = <<>> /\ noted = {}
  /\ phase \in {"read", "parse", "object"} =>
       \E i \in DOMAIN begins : Reading(i) \/ Parsing(i) \/ Astray(i) \/ Lost(i)
  /\ phase = "done" =>
       /\ \A i \in DOMAIN answer : i < Len(answer) => Whole(answer[i])
       /\ InOrder(added, New(Len(answer)))
       /\ noted = known \cap {answer[i].id : i \in DOMAIN answer}
  /\ phase \in {"thrown", "undefined"} => \E i \in DOMAIN answer : ~Whole(answer[i])

WireInv == WireTypeOK /\ TextInv /\ ReaderInv
=============================================================================
