--------------------------- MODULE CrowConnection ---------------------------
(***************************************************************************)
(* The connections that one worker thread of Crow serves, and their common *)
(* task_timer (http_connection.h, task_timer.h, parser.h of the vendored   *)
(* Crow).  The thread runs one asio handler at a time: a connection's      *)
(* start, the end of a read, the end of a write, or the tick of the timer, *)
(* each an action here.  What the operating system has already reported is *)
(* queued, and a handler meets whatever the handlers before it have done.  *)
(*                                                                         *)
(* A request arrives whole or in two pieces, alone in a read or with other *)
(* bytes behind it. The parser stays where the request ended: bytes behind *)
(* a body end the message again, and handle() runs once more each time     *)
(* while the first answer is being written. Only answers that do_write()   *)
(* sends are modelled; a streamed one clears the parser before handle()    *)
(* returns.                                                                *)
(* Time is counted in ticks: a deadline set between two ticks fires at the *)
(* first tick after it.                                                    *)
(***************************************************************************)
EXTENDS Integers

CONSTANTS
  Conns,      \* connections accepted
  Timeout,    \* default_timeout_ of the timer
  Sends,      \* what clients send, a subset of AllSends
  MaxAnswers, \* bound on the runs of handle() in one read
  MaxTime,    \* bound on ticks
  MaxIds      \* bound on highest_id_ when something arrives

\* A request, one with "Connection: close", the first piece of one, a header
\* with "Expect: 100-continue", the second piece, what is no request, two requests
\* without a body, or one whose URL has no route.
AllSends == {"whole", "last", "head", "expect", "rest", "bad", "pair", "unrouted"}

ASSUME CrowAssumption ==
  /\ Timeout \in Nat
  /\ Sends \subseteq AllSends
  /\ MaxAnswers \in Nat \ {0}
  /\ MaxTime \in Nat
  /\ MaxIds \in Nat

VARIABLES
  now,         \* ticks so far
  tasks,       \* task_timer::tasks_, from identifier to connection and due time
  highest_id,  \* task_timer::highest_id_
  task_id,     \* task_id[c]: Connection::task_id_
  open,        \* open[c]: adaptor_.is_open()
  reading,     \* reading[c]: the read outstanding, or what its handler will get
  msg,         \* msg[c]: how far parser_ is with a request
  writes,      \* writes[c]: async_writes not ended
  closing,     \* closing[c]: close_connection_
  owing,       \* connections whose clients owe the second piece
  since,       \* history: when the deadline of c was set last
  expired,     \* history: connections that their deadline closed
  expects,     \* history: connections that saw "Expect: 100-continue"
  overrun      \* history: connections that saw bytes behind a body

timerVars == <<now, tasks, highest_id, task_id, since>>
vars == <<timerVars, open, reading, msg, writes, closing, owing, expired, expects, overrun>>

Init ==
  /\ now = 0
  /\ tasks = << >>
  /\ highest_id = 0
  /\ task_id = [c \in Conns |-> 0]
  /\ open = [c \in Conns |-> FALSE]
  /\ reading = [c \in Conns |-> "new"]
  /\ msg = [c \in Conns |-> "none"]
  /\ writes = [c \in Conns |-> 0]
  /\ closing = [c \in Conns |-> FALSE]
  /\ owing = {}
  /\ since = [c \in Conns |-> 0]
  /\ expired = {}
  /\ expects = {}
  /\ overrun = {}

-----------------------------------------------------------------------------
\* task_timer and the two functions of Connection that use it

Without(ids) == [i \in DOMAIN tasks \ ids |-> tasks[i]]

\* std::map::insert: a key that is there already keeps its value.
Insert(f, i, t) == [j \in DOMAIN f \cup {i} |-> IF j \in DOMAIN f THEN f[j] ELSE t]

\* Mutant: the task issued last is cancelled.
cancel_deadline_last(c) ==
  /\ tasks' = Without({highest_id})
  /\ UNCHANGED <<now, highest_id, task_id, since>>

cancel_deadline_timer(c) ==
  /\ tasks' = Without({task_id[c]})
  /\ UNCHANGED <<now, highest_id, task_id, since>>

start_deadline(c) ==
  /\ highest_id' = highest_id + 1
  /\ tasks' = Insert(Without({task_id[c]}), highest_id', [conn |-> c, due |-> now + Timeout])
  /\ task_id' = [task_id EXCEPT ![c] = highest_id']
  /\ since' = [since EXCEPT ![c] = now]
  /\ now' = now

\* Mutant: identifiers start again although tasks are left.
process_tasks_reset(due) ==
  /\ tasks' = Without(due)
  /\ highest_id' = IF due # {} THEN 0 ELSE highest_id

Due(t) == {i \in DOMAIN tasks : tasks[i].due < t}

process_tasks(due) ==
  /\ tasks' = Without(due)
  /\ highest_id' = IF DOMAIN tasks \subseteq due THEN 0 ELSE highest_id

\* Closing a socket ends the read that is outstanding on it.
Tick ==
  /\ now < MaxTime
  /\ now' = now + 1
  /\ process_tasks(Due(now'))
  /\ LET hit == {c \in Conns : open[c] /\ \E i \in Due(now') : tasks[i].conn = c}
     IN /\ open' = [c \in Conns |-> open[c] /\ c \notin hit]
        /\ reading' = [c \in Conns |-> IF c \in hit /\ reading[c] = "pending"
                                       THEN "aborted" ELSE reading[c]]
        /\ expired' = expired \cup hit
  /\ UNCHANGED <<task_id, since, msg, writes, closing, owing, expects, overrun>>

-----------------------------------------------------------------------------
\* Clients and the acceptor

\* The acceptor posts the connection's start() to the worker.
Accept(c) ==
  /\ reading[c] = "new"
  /\ reading' = [reading EXCEPT ![c] = "start"]
  /\ open' = [open EXCEPT ![c] = TRUE]
  /\ UNCHANGED <<timerVars, msg, writes, closing, owing, expired, expects, overrun>>

Arrive(c) ==
  /\ reading[c] = "pending" /\ open[c]
  /\ highest_id < MaxIds
  /\ \E what \in Sends \cup {"gone"} :
        /\ what # "gone" => (c \in owing <=> what = "rest")
        /\ reading' = [reading EXCEPT ![c] = what]
        /\ owing' = IF what \in {"head", "expect"} THEN owing \cup {c} ELSE owing \ {c}
  /\ UNCHANGED <<timerVars, open, msg, writes, closing, expired, expects, overrun>>

-----------------------------------------------------------------------------
\* Connection

Start(c) ==
  /\ reading[c] = "start"
  /\ start_deadline(c)
  /\ reading' = [reading EXCEPT ![c] = "pending"]
  /\ UNCHANGED <<open, msg, writes, closing, owing, expired, expects, overrun>>

\* Mutant: the parser takes a request while the last answer is being written.
CompletesAlways(c) == \/ msg[c] # "head" /\ reading[c] \in {"whole", "last"}
                      \/ msg[c] = "head" /\ reading[c] = "rest"

\* What parser_.feed() makes of the bytes.  Once a request is complete it
\* ignores all later reads until parser_.clear(), but not the rest of this one.
Ignored(c) == msg[c] = "done"
Partial(c) == ~Ignored(c) /\ msg[c] = "none" /\ reading[c] \in {"head", "expect"}
Completes(c) == \/ ~Ignored(c) /\ msg[c] = "none" /\ reading[c] \in {"whole", "last"}
                \/ ~Ignored(c) /\ msg[c] = "head" /\ reading[c] = "rest"

HasData(c) == reading[c] \in AllSends

\* The parser fails after an answer has begun: handle_url() answers a URL without
\* a route and ends the parser, or a request follows one without a body.
CutsOff(c) == /\ HasData(c) /\ ~Ignored(c) /\ msg[c] = "none"
              /\ \/ reading[c] = "unrouted"
                 \/ reading[c] = "pair" /\ open[c]

CutShort(c) ==
  /\ CutsOff(c)
  /\ cancel_deadline_timer(c)
  /\ open' = [open EXCEPT ![c] = FALSE]
  /\ reading' = [reading EXCEPT ![c] = "no"]
  /\ msg' = [msg EXCEPT ![c] = "done"]
  /\ writes' = [writes EXCEPT ![c] = @ + 1]
  /\ UNCHANGED <<closing, owing, expired, expects, overrun>>

\* The read failed, the bytes are no request, or the deadline has closed the
\* socket meanwhile (then handle() cancels too, and throws).
ReadEnds(c) ==
  /\ \/ reading[c] \in {"gone", "aborted"}
     \/ HasData(c) /\ ~CutsOff(c) /\ ~open[c]
     \/ HasData(c) /\ ~CutsOff(c) /\ ~Ignored(c) /\ ~Partial(c) /\ ~Completes(c)
  /\ cancel_deadline_timer(c)
  /\ open' = [open EXCEPT ![c] = FALSE]
  /\ reading' = [reading EXCEPT ![c] = "no"]
  /\ UNCHANGED <<msg, writes, closing, owing, expired, expects, overrun>>

\* handle_header() answers an expectation with a write of its own.
ReadMore(c) ==
  /\ HasData(c) /\ open[c]
  /\ Ignored(c) \/ Partial(c)
  /\ start_deadline(c)
  /\ reading' = [reading EXCEPT ![c] = "pending"]
  /\ msg' = [msg EXCEPT ![c] = IF Partial(c) THEN "head" ELSE @]
  /\ IF Partial(c) /\ reading[c] = "expect"
     THEN /\ writes' = [writes EXCEPT ![c] = @ + 1]
          /\ expects' = expects \cup {c}
     ELSE UNCHANGED <<writes, expects>>
  /\ UNCHANGED <<open, closing, owing, expired, overrun>>

\* handle(): the answer is written, and the next request read unless the client
\* asked to close.  Each byte behind a body completes the message once more.
Handle(c) ==
  /\ HasData(c) /\ open[c] /\ Completes(c)
  /\ msg' = [msg EXCEPT ![c] = "done"]
  /\ \E n \in 1 .. MaxAnswers :
        /\ writes' = [writes EXCEPT ![c] = @ + n]
        /\ overrun' = IF n > 1 THEN overrun \cup {c} ELSE overrun
  /\ closing' = [closing EXCEPT ![c] = reading[c] = "last"]
  /\ \/ /\ reading[c] = "last"
        /\ cancel_deadline_timer(c)
        /\ reading' = [reading EXCEPT ![c] = "no"]
     \/ /\ reading[c] # "last"
        /\ start_deadline(c)
        /\ reading' = [reading EXCEPT ![c] = "pending"]
  /\ UNCHANGED <<open, owing, expired, expects>>

\* The end of do_write(), with or without an error.
Written(c) ==
  /\ writes[c] > 0
  /\ writes' = [writes EXCEPT ![c] = @ - 1]
  /\ msg' = [msg EXCEPT ![c] = "none"]
  /\ \/ closing[c] /\ open' = [open EXCEPT ![c] = FALSE]
     \/ open' = open
  /\ UNCHANGED <<timerVars, reading, closing, owing, expired, expects, overrun>>

Next ==
  \/ Tick
  \/ \E c \in Conns : \/ Accept(c) \/ Arrive(c) \/ Start(c)
                      \/ ReadEnds(c) \/ CutShort(c) \/ ReadMore(c)
                      \/ Handle(c) \/ Written(c)

Spec == Init /\ [][Next]_vars

-----------------------------------------------------------------------------
(* Properties *)

TypeOK ==
  /\ now \in Nat /\ highest_id \in Nat
  /\ DOMAIN tasks \subseteq Nat \ {0}
  /\ \A i \in DOMAIN tasks : tasks[i] \in [conn : Conns, due : Nat]
  /\ task_id \in [Conns -> Nat] /\ since \in [Conns -> Nat]
  /\ open \in [Conns -> BOOLEAN]
  /\ reading \in [Conns -> AllSends \cup {"new", "start", "pending", "no", "gone", "aborted"}]
  /\ msg \in [Conns -> {"none", "head", "done"}]
  /\ writes \in [Conns -> Nat]
  /\ closing \in [Conns -> BOOLEAN]
  /\ owing \subseteq Conns /\ expired \subseteq Conns
  /\ expects \subseteq Conns /\ overrun \subseteq Conns

\* The connection waits for its client and nothing has come.
Waiting(c) == open[c] /\ reading[c] = "pending"

HasDeadline(c) == \E i \in DOMAIN tasks : tasks[i].conn = c

\* A connection whose client sends nothing is closed when the timeout is over.
\* The test "timeout" says so of one connection; it fails for two.
ClosedInTime == \A c \in Conns : Waiting(c) => now - since[c] <= Timeout

\* No deadline fires before its time, nor for a read that is over: the timer
\* never closes a connection that was heard of within the timeout.
NeverEarly ==
  [][\A c \in Conns : c \in expired' \ expired => now' - since[c] > Timeout]_vars

\* Every task in the timer is the last one its connection scheduled, under an
\* identifier that schedule() cannot issue again while it is there.
OneDeadlineEach ==
  \A i \in DOMAIN tasks : i <= highest_id /\ task_id[tasks[i].conn] = i

\* Until a first deadline has fired, every waiting connection has its own.
SafeUntilFirstTimeout ==
  expired = {} => \A c \in Conns : Waiting(c) => HasDeadline(c)

\* A waiting connection loses its deadline only to one that has none itself,
\* because it has fired or was lost in this way: that connection cancels with an
\* identifier that has been issued anew.
LostOnlyToDeadless ==
  [][\A c \in Conns :
        Waiting(c) /\ Waiting(c)' /\ HasDeadline(c) /\ ~HasDeadline(c)'
           => \E d \in Conns \ {c} : ~HasDeadline(d) /\ reading'[d] # reading[d]]_vars

\* buffers_ and res_body_copy_ belong to one write at a time, however a client
\* splits its requests over reads, follows one without a body by another or asks
\* for what has no route: once message_complete is set, feed() takes nothing of a
\* later read until the answer is written.  The code breaks this for a client
\* that was told to continue, and for one that sends bytes behind a body in the
\* same read, where feed() has passed its test; both are left out here.
OneWriteAtATime == \A c \in Conns \ (expects \cup overrun) : writes[c] <= 1
-----------------------------------------------------------------------------
(* The inductive invariant the proofs use *)

\* The handler of a read will run, so the connection will use its task_id.
Active(c) == reading[c] \in AllSends \cup {"pending", "gone", "aborted"}

DueRight ==
  \A i \in DOMAIN tasks :
     tasks[i].due = since[tasks[i].conn] + Timeout /\ tasks[i].due >= now

OwnsTask(c) == task_id[c] \in DOMAIN tasks /\ tasks[task_id[c]].conn = c

\* Before the first timeout a connection is open as long as it reads, and has
\* its task: closing one by Written needs an end of reading before.
ActiveInv ==
  /\ \A c \in Conns : reading[c] \in {"new", "start"} => task_id[c] = 0
  /\ \A c \in Conns : closing[c] => reading[c] = "no"
  /\ expired = {} => \A c \in Conns : /\ reading[c] = "start" \/ Active(c) => open[c]
                                      /\ Active(c) => OwnsTask(c)

IInv == TypeOK /\ OneDeadlineEach /\ DueRight /\ ActiveInv
=============================================================================
