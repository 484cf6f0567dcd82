# RESTServer: specifications, checks and proofs

RESTServer is one node of a network that passes *events* (requests and
responses, JSON with `meta` and `data`) from server to server. A node has two
halves. The server half keeps, per *group*, a table of events; workers fetch the
waiting events of a group over HTTP, start one, and finish it or clear it. The
client half (the connector) is such a worker of other nodes: one thread polls
its peers, another one starts the events found there and runs a handler or a
callback.

This directory has TLA+ models of both halves and of the part of the HTTP server
under them that keeps time, TLC runs that check them on small
instances, and proofs, checked by TLAPS, for instances of every size. All file
and line references are to the repository.

## 1. Inventory

### The system's parts

| part | state | operations | interacts with |
|---|---|---|---|
| `server::mutex_n`, `scope_lock_mutex` (`tasker_manager.h:55-95`, `tasker_manager.cpp:8-42`) | two `std::mutex` (`my`, `mt`), a vector of rows (thread id, nesting count) that only grows | `lock`, `unlock`, `check_thread` | every table of the server, its Logger |
| `server::group_clients` (`tasker_manager.h:203-268`, `tasker_manager.cpp:96-320`) | `clients` (25 rows and more), `events` (100 slots and more), four `mutex_n`; a static answer buffer shared by all groups | `get_events_json`, `start_event`, `clear_event`, `end_event`, `add_new_event`, `check_client`, `get_new_client`, `generate_hash_event` | called by `tasker_manager` under its lock |
| `server::tasker_manager` (`tasker_manager.h:270-306`, `tasker_manager.cpp:321-456`) | vector of groups, `mt`, `server_hash`, `name_server` | the five operations by group name, `find_group` | called by `controller` on Crow's threads |
| `controller`, `url` | none | five routes, one handler each | Crow, `tasker_manager` |
| `connector::connector_manager` (`connector_manager.h:391-960`) | connections, handlers, `empty_thread` and a condition variable, `work_loop`, two threads | `loop`/`getevent`, `worker_task`, `send`, `send_response`, `start_event`, `clear_event`, `end_event`, `on`, `off`, `exit`, `start_loop`, `finish_loop`, `get_myid` | peers over HTTP (curl), `manager_task`, `manager_returns`, handlers |
| `connector::manager_task` (`connector_manager.h:199-317`) | `buffer` of tasks (25 and more), each with `note` and `empty` | `add`, `check_id`, `get_task`, `delete_notnote`, `note_all`, `delete_object` | poll thread and worker thread |
| `connector::manager_returns` (`connector_manager.h:318-381`) | `returns`: the callbacks of requests sent | `add`, `call`, `check`, `delete_object` | senders and worker thread |
| `connector::mutex_n` (`connector_manager.h:17-39`) | a counter for all threads, one `std::mutex` | `lock`, `unlock` | everything in the connector |
| `Logger` (one per half) | open files, the current one | `log`, `add_file`, `delete_file`, `set_current_file` | everybody |
| `web_server`, `server_logic`, `main` | wiring | start, stop, names | Crow, both halves |
| `curl_wrapper` | one curl handle per thread | `get_page`, `get_page_json` | connector |
| Crow's `Connection`, `task_timer` (`src/Crow/include/crow/http_connection.h`, `task_timer.h`, `parser.h`) | per connection: socket, parser, `task_id_`, write buffers; per worker thread: `tasks_`, `highest_id_` | `start`, `do_read`, `handle`, `do_write`, `start_deadline`, `cancel_deadline_timer`, `process_tasks` | controller; other connections through the timer |
| the rest of Crow, asio | vendored | HTTP server | controller |

Nothing is written to disk but log files: a restart starts with empty tables.

### What is hard, and what makes each part correct

*The server's lock.* `lock()` and `unlock()` each take the inner mutex `my` twice
and let go of it in between, keeping a row index that other threads' appends
could invalidate, and the count lags behind the mutex. Correct means: threads
exclude each other, the index stays right, and callers see an atomic recursive
lock.

*The tasker.* Requests arrive in any order, repeated, with ids that are stale or
belong to another group, from workers that are not recorded as owners of an
event. Correct means: an `event_id` is granted once, live ids are unique, and no
sequence of requests loses, copies, alters or moves an event. Inside, the
handlers take the inner locks in two different orders, search and then append in
two steps, share a static buffer and move all groups when one is added; only the
outer lock makes this correct, and the models say so as properties.

*The connector.* `connector::mutex_n` has one counter for all threads: a thread
that finds it non-zero passes. So poll and worker work on one buffer with no
mutual exclusion, and two overlapping `unlock()` calls that both see 2 leave the
`std::mutex` locked for good. Calls are lost, events are listed again after their
task is gone, other nodes compete for them, the buffer overflows without taking
the task, a wake-up can be overwritten. Correct means: nothing runs twice or
without having been granted, a callback is called once, the sweep deletes exactly
what is no longer listed, and a waiting event is taken in the end.

*The connector's callbacks.* `send()` repeats its POST until it is answered and
adds a row to `manager_returns` only then; other senders and the worker work on
the rows at the same time, and `push_back` moves them. Correct means: a callback
runs once, with the answer to its own request, and a handler that sends a
response comes to an end.

*The connector's peers.* They fail, come back, and forget the ids they gave.
`getevent` calls all of them in rounds, leaves those alone that failed often,
and asks for a new id when it is told `$error`. Correct means: an old answer is
never taken for a new one, a dead peer does not hold up the others, and one that
comes back is served again.

*The answer to a poll* is text without separators: sizes, objects and line ends,
written in one program and read by another one that searches for braces. Correct
means: what is read is what was written, or the reader does not come to the end.

*Switching the connector on and off.* `on()` runs in a detached thread;
`off()` joins two threads of which one may sleep on a condition variable and each
may hang in a `lock()`; the destructor calls `off()` again. Correct means: no
thread is left over, none is joined twice, and `off()` returns.

*Deadlines.* All connections of one of Crow's worker threads share a timer whose
identifiers start again when it is empty, while connections keep theirs.
A parser that has a request ignores what later reads bring, but not the rest of
the same read. Correct means: a silent client is disconnected in time, no other
one is, and one answer at a time is written from a connection's buffers.

`PROJECT.json` lists the hazards with their lines, including those no property
covers yet and why.

## 2. Modules

| module | models | extends / instantiates |
|---|---|---|
| `RecursiveLock` | the abstract recursive lock | |
| `RecursiveMutex` | `server::mutex_n`, statement by statement | refines `RecursiveLock` |
| `RecursiveMutexProofs` | proofs | `RecursiveMutex` |
| `EventBoard` | the abstract promise of the tasker | |
| `Tasker` | `tasker_manager` and `group_clients`, one action per handler | refines `EventBoard` |
| `TaskerProofs` | proofs: invariants, refinement | `Tasker` |
| `TaskerThreads` | the same handlers, lock by lock and on several threads | refines `Tasker` |
| `TaskerThreadsProofs` | proofs: invariants, refinement of `Tasker` | `TaskerThreads` |
| `Connector` | poll thread, worker thread, `send()` and the peers | |
| `ConnectorProofs` | proofs | `Connector` |
| `ConnectorMutex` | `connector::mutex_n`, access by access | refines `RecursiveLock` for one thread |
| `ConnectorTableProofs` | proofs | `ConnectorMutex`, `Returns` |
| `Connections` | how `getevent()` calls the peers, back-off, new ids | |
| `EventWire` | the text of an answer, its writer and its reader | |
| `PollProofs` | proofs | `Connections`, `EventWire` |
| `Returns` | `manager_returns` member by member, `send()`, `send_response()` | |
| `ConnectorLife` | `on()`, `off()`, the destructor and the loops of both threads | |
| `ConnectorLifeProofs` | proofs | `ConnectorLife` |
| `CrowConnection` | connections of one worker thread of Crow and their timer | |
| `CrowConnectionProofs` | proofs | `CrowConnection` |
| `MC*` | instances for TLC | |

Definitions whose comment begins with *Mutant* are faulty variants of the
definition that follows. No specification uses them. Each property of a run is
refuted when one of them takes the place of the definition it varies, which
shows that the property says something about the code; `PROJECT.json` pairs
them.

### Correspondence to the code

*RecursiveMutex.* `ids` is `threads_id`, `my` and `mt` hold the owner of the
mutex of that name. A thread's `pc` names the statement it is at; `CallLock` and
`CallUnlock` are the calls of `scope_lock_mutex`, `LockTakeMy` ... `UnlockCount`
the statements of `mutex_n`. `depth` is what the caller did: how many scopes it
has open. A thread opens at most `MaxDepth` scopes.

*Tasker.* `events[g]` is the vector `events` of group `g` with the fields of
`server::event` (`hash_worker` is never written by the code and left out);
`clients[g]` is a set because rows are never freed and the order is never read.
An event body is the part of its JSON that steers the server: the names in
`$list_servers` and whether `$respon_id` is there. A request is one action with
its group and id free: any worker, any group a URL can name, any id ever seen and
an unknown one. `add_new_event` keeps two things a reader may not expect:
the group is created even when the event is refused with -1
(`tasker_manager.cpp:442-452`), and an event whose list does not name this
server goes to the group of the empty name. `status` is the number the reply
carries. `seen` and `grants` are history.

*TaskerThreads.* `gate` is `tasker_manager::mt`; each group has `mt_client` and
`mt_event`. One action is what a thread does between two lock operations; `pc`
says where. `static respon` is one variable. `committed` holds the tables at
the last acquisition of the gate, so that a handler is one step of `Tasker`,
taken at `Leave`. The mutexes are recursive locks, which `RecursiveMutexProofs`
justifies.

*Connector.* `buffer` is `manager_task::buffer`; a task is its id (`NoId` after
`json.clear()`), `note` and `empty`. The loops of the poll (`check_id`, `add`,
`delete_notnote`, `note_all`) and of the worker (`get_task`, `delete_object`) are
one action per slot with the index as a variable (`pslot`, `wslot`), and where a
slot is tested and then used, there are two actions (`get_task` and `Copy`,
`delete_object` and `init_task`). The tests-and-sets that are one action all the
same are those of the poll, which is the only one to fill slots, and whose
counterpart only empties them. `answers[c]` is what `respon_str` of connection
`c` lists; it is empty for `{}`, for `$error`, for a failed call and while a
connection that failed often is left alone, because `getevent` skips all these
alike, sweep and wake-up included. `returns` is the set of requests whose callback
is registered. `lost` counts calls that failed, `ran`, `fired` and `winner`
are history. `Hang` stops both threads: it stands for the `std::mutex` that
overlapping `unlock()` calls leave locked, which every function of both threads
takes sooner or later.

The peers are external code: `Post`, `OtherStarts` and `OtherEnds` are what they
and their other clients do, `Listed` and `Started` their answers. They grant an
event once, as `Tasker` does (`OneGrantPerId`). A handler that clears its event is
`OtherEnds` on an event this node started: the peer has it under another id
then. This repository's server is not such a peer: the connector calls
`/api/get/<server_hash>/<name>/command/<hash_worker>/event`, while `url.cpp`
routes `/api/get/<hash_worker>/<group>/command/event`, and it has no route for
`getid` or `exit`.

The modules of the connector divide it as follows. `Connector` has the tasks
and takes each poll's answer as a set of ids. Where such an answer comes from is
`Connections`; what it looks like on the wire is `EventWire`; that `mutex_n` lets
everybody in and may hang is `ConnectorMutex`; the rows behind the set `returns`
are `Returns`, which also has what becomes of the ids of a peer while `send()` and
`send_response()` repeat their calls; and how the threads come and go is `ConnectorLife`.

*ConnectorMutex.* `n`, `mt` and `tmp` are the counter, the mutex and what `n++` or
`n--` of a thread has read: reading and writing the plain `int` are two actions.
`mt.unlock()` frees the mutex whoever calls it. `depth` counts the scopes a
thread has open. The history variable `met` says that two calls have overlapped.

*Connections.* `count_try`, `respon` (`respon_str`) and `all_successfull` are the
members and locals of these names; `age[c]` is the time since `last_try`, and
`dur` the time the rounds of this poll have taken. `id` is what a peer makes of
the ids the connector holds for it: `good`, `stale` after the peer was restarted,
`empty` when `get_myid(address, false)` had no answer and left `""`. `Call` is a
call to one peer, `Skip` the `continue` of the back-off, `Rounds` the end of the
inner loop, `Use` what is done with `respon_str` afterwards, `Sleep` the 100 ms of
`loop()`. `asked` and `failed` are history.

*EventWire.* `get_events_json` is the writer: `WriteLine` is a run through its
loop for an event that is busy and not in process, `Reply` its end. The reader is
one action per branch of the loop in `getevent()`: `Begin`, `Find` (search the
next brace), `End`, `Parse`, `ReadId`, `ReadMeta`, `ReadData`. `text` is `respon`
and then `respon_str`; `j`, `n`, `size` (`int_size_json`), `index_object`, `jump`
and `json_temp` are the locals of these names. An uncaught exception of the JSON
parser is `phase = "thrown"`, a read past the end of a buffer `phase =
"undefined"`. `begins` is history: where each event begins. The contents of ids,
meta and data are one character per event.

*Returns.* A row has three of the four members of the struct, without `json_send`,
which only the callback reads; copying or clearing it is one action per member. `moved` are those who still write to the memory that
`push_back` left. `copies` is what the peers have got: a request whose answer
was lost is there more than once, under different `$respon_id`s. Calling a
callback that is not there yet ends the process (`wpc = "dead"`). In a handler
the worker sends a response, checks the rows and finishes the event until it is
not answered -1. `ids[p]` is what `connections` has for a peer: `good`, `stale` once
the peer has forgotten them (`Forget`), `empty` when `get_myid(address, false)` got
no answer. A peer in `Tells` answers stale ids with `$error`, and the caller goes to
`get_myid()`: `asking` has those of `send()` and the worker that are there,
`polling` the peer for which the thread that polls is. Another peer takes a POST
whatever the ids are and answers -1 to the finishing call, as this repository's
server does for a group it does not have (`tasker_manager.cpp:418`), until a poll
has it make the group again (`:366-373`). A URL with empty ids has no route, and its
404 is never `$error`. `RowsNext` is what is done to the rows, `IdsNext` what is done
to the ids; `Hang` is the `lock()` that never returns.

*ConnectorLife.* The k-th call of `on()` starts the k-th pair of threads. `th` and
`th_worker` are the pointers of these names, which a later `on()` overwrites.
`Join` and `Delete` on a pointer whose object is gone set `crashed`, as does a
thread that runs on in a destroyed manager (`UseAfterDestruction`). `paired` says
that every `off()`, the destructor's included, has followed a finished `on()`.
`Hang` stops one caller or thread for good where it takes a scope on `mt_n` (or, the
worker, any `connector::mutex_n`) and others may have overlapped with it: `mt` can
be left locked with `n` 0, and `off()` joins its threads while it has `mt`, so that a
thread that had read `n` = 0 before waits for the one that joins it.

*CrowConnection.* The worker thread runs one asio handler at a time; each is an
action: a connection's start, the end of a read, the end of a write, a tick of
the timer. What the operating system has reported is queued in `reading`, so that
a handler may find its connection closed by another one meanwhile. `tasks`
is `tasks_` of the timer, `task_id` the connections' `task_id_`. Requests arrive
whole or in two pieces, with "Connection: close", with "Expect: 100-continue", with
bytes behind their body, two in a read, for a URL without a route, or malformed.
`feed()` asks only at its start whether a request is complete (`parser.h:112`), and
the parser stays in its last state behind a body
(`http_parser_merged.h:1759-1761`), so each further byte of that read runs
`handle()` once more (`Handle`); behind a request without a body, it fails
(`CutShort`). `overrun` has the connections where the former happened.

## 3. Runs

| run | instance | distinct states | shows |
|---|---|---|---|
| `mutex` | 3 threads, nesting 2 | 9 500 | the rows, counts and owners agree at every statement; `mutex_n` is a recursive lock |
| `tasker` | 2 workers, 2 named groups and the empty one, 4 event shapes, 1 slot per new group, 3 hashes | 60 087 | one grant per id, stranded events stay, the event board is implemented |
| `tasker_threads` | 2 threads, 1 worker, 2 groups, 3 event shapes, 2 hashes | 321 771 | handlers are atomic to clients; inner locks never contended; groups not moved under a thread; the lock is always given back |
| `connector` | 2 peers, 4 events (2 responses to one request, one of another type, one unhandled), 2 of them posted, 1 slot, 1 lost call | 3 777 637 | one run per event; an event is left started and unfinished only by a lost call; the buffer stops growing; exact sweeps |
| `connector_live` | 1 peer, 2 requests, 1 slot, 1 lost call, hanging allowed | 822 129 | a waiting event is taken in the end, unless the threads hang |
| `connector_mutex` | 3 threads, nesting 2, counter up to 4 | 2 154 904 | sound as long as no two calls overlap; stuck for ever after two that did |
| `connections` | 2 peers, 2 crashes or restarts, limits of the back-off scaled down | 110 693 | answers are fresh; a dead peer is called a bounded number of times in a poll; peers that stay or come back are served |
| `event_wire` | up to 3 events with 6 kinds of data | 80 899 | whole answers are read as written; others are never misread silently |
| `returns` | 3 requests to 2 peers, 1 row, 3 calls of `send()`, losses and forgotten ids in all | 693 957 | who calls which callback, how often and with whose answer; `send_response()` returns unless a lock hangs or the ids are empty |
| `life` | 2 peers, 2 calls of `on()`, 3 of `off()`, any thread may hang | 97 093 | safe in paired use; no thread left; a second `off()` never returns; `off()` ends, is lost in one known way, or hangs |
| `crow_connection` | 2 connections, timeout 1 tick, 4 ticks, up to 3 answers in a read | 1 740 934 | every deadline is its connection's own; who can lose one, and to whom; one write at a time, but for two named exceptions |
| `crow_timeout` | 2 connections that send whole requests | (violated) | a silent client is *not* always disconnected: see Findings |

Types are part of the inductive invariants (`IInv`, `ReturnsInv`) where a module
has one.

### Findings

`crow_timeout` expects a violation. A connection whose deadline has fired keeps
its `task_id_`. When the handler of the read that the deadline aborted runs, it
cancels that identifier (`http_connection.h:492`); if the timer had become empty
(`task_timer.h:112` resets `highest_id_`) and another connection had started
since, the identifier is that connection's. It has no deadline then and stays
open, though its client sends nothing; the option's comment (`app.h:170`) and
the test `timeout` (`unittest.cpp:3336`) say that it is closed. With a single
connection, which is what the test has, it is: `ClosedInTimeAlone`.
`LostOnlyToDeadless` says that this is the only way to lose a deadline, and that
it starts with one that has fired.

### Bounds, and why they suffice

- `Threads` (3 and 2). In `mutex_n` a third thread is what can append a row
  while one holds the lock and another is about to take it. In the tasker two
  threads show each conflict, all of which are between pairs; the worker is one
  in `tasker_threads` since workers only differ in their row, and two threads
  serving one worker is the case that could add its row twice.
- `MaxDepth` 2: a tasker operation locks `mt`, `find_group` locks it again.
- `InitialSlots`, `InitialRows` 1 instead of 100 or 25: the first event fills
  the table, the second makes it grow. The size matters to the code only through
  "full or not".
- `MaxClock` 3 and 2: hashes generated in a run. Three make an event, its
  cleared successor and another event; two threads can post two events.
- `MaxLost` 1: failing calls. One failure can hit the poll, the start or the end
  of either event; the proofs hold for any number.
- `MaxLoad` 3 in `Returns`: calls of `send()`, lost calls and forgotten ids,
  together. Three are two senders and a POST that is repeated, three senders that
  meet, or a response whose peer forgets the ids and whose call for new ones is
  lost; the proofs have no such bound. `Tells` has one peer of the two.
- `MaxAnswers` 3: a read that completes its request up to three times.
- `MaxPosts` 2: events posted in a run. Two fill and overflow one slot; the four
  ids of `connector` let them be of any two kinds and come from either of two
  peers, which is what makes a sweep meet another connection's tasks. An event
  is posted once, because its id changes when it is cleared.
- `MaxCount` 4 in `ConnectorMutex`: calls that overlap can drive the counter
  anywhere, below 0 too, so `lock()` is called only while it is within this
  bound. Two threads can be nested twice each, or three once, with another call
  to come.
- `Few` 1, `Many` 5, `Short` 4, `Long` 6 in `Connections` stand for 5 and 20
  failures, 100 ms and 1 s: the two limits and the two waiting times keep their
  order, each is reached, and a peer can be put off for a time longer than one
  poll. `MaxFaults` 2 is a crash and a restart. `EmptyRouted` is `FALSE`: a peer
  has no route for a URL with empty ids, as Crow has none.
- `EventWire`: three events, one of which is between two others; sizes of one,
  two and three digits, since the reader takes the digits before a brace. The
  theorems have neither bound.
- `MaxOn` 2, `MaxOff` 3: on, off, on, off, and the destructor.
- `Timeout` 1, `MaxTime` 4, `MaxIds` 3: a deadline fires, the identifiers start
  again, and another deadline should fire.
- Symmetry is used for the workers of `tasker` and the contents of the events of
  `event_wire`, which are only compared with each other; both runs check safety
  properties only.

The buffer may grow to as many slots as there are distinct events and no more:
that is `BufferBounded`, not a bound put on the model.

Deadlock is checked except where the system really stops: hung threads
(`connector_live`, `connector_mutex`, `returns`, `life`), a process that has ended or a destroyed
manager (`returns`, `life`), an answer that has been read (`event_wire`), and
connections that are closed (`crow_*`).

### Fairness

- `TaskerThreads`: weak fairness of the steps of each thread that runs a
  handler. A handler has no wait but its locks, and a thread that is ready to
  run is scheduled. The arrival of requests is not fair.
- `Connector`: weak fairness of the poll thread and of the worker thread, as
  long as they are not hung. `loop()` runs until `off()`, polling every 100 ms,
  and `worker_task()` until `off()`; handlers and callbacks are taken to return.
  Only finitely many calls fail (`MaxLost`): with a peer that never answers,
  nothing can be promised. Peers, other clients and senders are not fair.
- `Connections`: weak fairness of the polling thread (`Loop`), which runs until
  `off()`; calls are taken to end. (`curl_wrapper.h` sets no time limit, so a
  peer that accepts a call and never answers would stop the polls of all.) Peers
  may stay down for ever, and only finitely many faults happen (`MaxFaults`).
  `LiveIsServed` and `RecoversOrForgotten` start from a peer that is up for
  good.
- `Returns`: weak fairness of the worker and of the thread that polls, whose calls
  end, as long as no lock hangs. `HandlersReturn` needs nothing of the senders: the
  rows it goes through grow only finitely often. It has two exceptions. `[]~hung` is
  its premise, since `lock()` need not return. And the ids of the peer may be empty:
  after one lost call of `get_myid(address, false)` nothing makes them good again
  but a `$error` that a URL without ids never gets, and the loop around
  `end_event()` goes on for ever.
- `ConnectorLife`: weak fairness of both threads of each pair and of
  `finish_loop()` once called, as long as they do not hang; a handler returns. `on()` is not fair: `get_myid`
  repeats its call for as long as a peer does not answer. `OffEndsOrLost` names the
  hang of `off()` or of a thread of its pair as an outcome: nothing in the code
  rules it out.
- `LiveIsServed` and `RecoversOrForgotten` are about a poll whose scope on `mt_n`
  does not hang; `Connections` has no `Hang`, and a thread that hangs does not poll.
- The premise `[]~hung` of `WaitingIsTaken` is needed: the broken mutex does let
  the threads hang. So are one connection (a second one's sweep may delete the
  task again and again) and events the worker takes (one of another
  `$type_event` blocks the tasks behind it).

## 4. Proofs

All assumptions are the named `ASSUME`s on the constants, which TLC evaluates
for the instances it checks: bounds are natural numbers, the sets whose members
are counted are finite (`Ids` in `ConnectorAssumption`, `Threads` in
`CountAssumption`), and the names for "nobody" and "nothing" are not members of
what they stand beside. `ClosedInTimeAlone` and `AloneImplementsLock` name their
premise, a single connection or thread, in the theorem. Nothing else is assumed.

**`RecursiveMutexProofs`** (any threads, any nesting bound). The invariant `IInv`
says that each thread has one row, that its count is the thread's nesting depth
(`RowsMatch`), that the owners of `my` and `mt` are exactly the threads whose
location says so (`OwnersMatch`), and which depth each location implies.
`MutualExclusion` alone is not inductive: that `unlock()` releases `mt` only at
depth 1 follows from the count in the row, and that the row is the right one from
`IndexStillMine`. `MutexImplementsLock` maps each step to a step of
`RecursiveLock` or to a stutter.

**`TaskerProofs`** (any workers, groups, messages, table size, clock bound).
`IInv` adds to types and uniqueness that busy slots carry issued hashes of their
own group (`BusyHasHash`), that free slots are clean, and that a *waiting*
event's hash has never been granted (`WaitingNotGranted`): that is what makes a
second grant impossible, and it needs `clear_event` to generate a new hash and
`end_event` to wipe the old one.

`TaskerImplementsBoard` is the refinement of
`EventBoard`: a slot of the table becomes a ticket, and each handler is one of
`Post`, `Take`, `GiveBack`, `Finish` or a stutter. `UniqueHashes` is needed so
that changing one slot changes one ticket. `TaskerKeepsMisrouted`: an event of
the empty group stays as it is for ever.

**`ConnectorProofs`** (any events, peers, requests, buffer size, number of lost
calls). The notes of the tasks are the heart of `IInv`: while the poll goes
through an answer, a task is noted exactly when its id is among those already
dealt with (`NoteInv`), and the id it is at is in none of the slots it has
passed (`ScanInv`). Both survive the worker because the worker only empties
slots (`EmptiedInv`). From them follow `NoDuplicateTasks`, `SweepLeavesListed`
and `SweepSparesListed`. `RunsOnce` needs that an event granted to the node
waits no longer (`RunInv`), `FiredOnce` that a callback called has no entry left
(`ReturnInv`).

`BufferBounded` needs an invariant of its own, `GrowInv`: while `add()` goes
through the buffer, the full slots it has passed hold different events, so there
is an injection of them into the ids other than the new one; when the last slot
is passed, the buffer is shorter than the number of ids. It is proved in the
form "there is such a function", which each step of poll and worker extends or
keeps. `StrandedByLostCalls` compares two cardinalities that change together: a
step strands one event at most, and only if it uses up one of the lost calls.

**`TaskerThreadsProofs`** (any threads, groups, workers, events, clock bound).
`IInv` is `LocksInv`, about the locks, and `HandlersInv`, about the work.
`LocksInv` is inductive by itself and has three parts. Whoever runs a handler
owns the gate, and whoever owns a mutex of a group works in that group
(`OwnersInv`), which makes all inner locks free or one's own. What a thread has
looked up, a group's index, that a group or a worker is missing, is still so when
it uses it (`FoundInv`). And whatever is in a group's table or in the shared
answer has a hash of that group (`HashesInv`). `CreateGroup` is where this needs
work, since it moves all groups.

`ThreadsImplementTasker` shows that the threads implement `Tasker`, whose state
is here the tables as the last handler left them (`committed`). Only `Leave` is
a step of `Tasker`, that of the whole request; `Enter` and every step between
are stutters. So one has to know at `Leave` that the parts add up, and
`HandlersInv` keeps the account: it says for each place in a handler how the
tables, the answer, the clock and the grants differ from those in `committed`.
Before the group is looked for, not at all (`Untouched`); then by the group alone
(`Grouped`); then by the worker in it too (`Registered`); and after the work by
what the request's row of the interface says, told against the rows in
`committed` (`Served`, or `Refused` when the answer is -1). The step of a stage
carries over to the next one because `LocksInv` keeps all other threads out.
A group that a refused `add_new_event` has made stays, and `Tasker` says so, too.
With `TaskerImplementsBoard` the handlers on threads keep the promise of
`EventBoard`; what remains assumed is that `mt` works, which is
`RecursiveMutexProofs`.

**`PollProofs`**, the calls (any number of peers and faults, any limits of the
back-off). `AnswersAreFresh` follows from `FreshInv`: a connection the current
round has gone past, and that has not failed last, has answered in this poll. A
peer that is put off does not matter there, since only one that has failed is.
`BackOff` needs `BackOffInv`: `count_try` is at least the number of this poll's
failures until it exceeds `Few`, and `age` of a peer that has failed in this poll
is at most `dur`, as far as that counts. So when the peer is called once more though `count_try` exceeds
`Few`, the poll has lasted `Short`, and this round is the last.

**`PollProofs`**, the answer (any contents, sizes that are ints, any number of
events; what a meta and data look like is as in `Events` and `Datas`: a meta is an
object with an object in it, data is missing, an object, a number, a string or an
array of an object; `EventWireAssumption` only says that the contents of an event are told
from digits and brackets and how small a JSON text with its braces can be). The
invariant `WireInv` has three parts besides types:

- `TextInv`: each line stands where `begins` says, and the next one after it;
- where the reader is. `Reading(i)` and `Parsing(i)`: at an object of event `i`,
  all events before having been read as written. `Astray(i)`: it wanted data of
  event `i`, which has none that is an object, and has found the id of the next
  event or the inside of an array instead. `Lost(i)`: it took the id of event `i`
  for the data of the event before, which the JSON parser allows only if the size
  read was that of an id (`AstrayText`), has added that, and is about to take the
  meta of event `i`, or what is in it, for an id;
- what the outcomes mean: `thrown` and `undefined` only if some event has no
  object for data, `done` only if none but the last is such an event.

That `Lost` ends in `thrown` or `undefined` and never in `done` is the point of
`NothingMisread`: a meta has braces, but no text that begins at one of them is an
object with an `id` (`LostText`). The wrong task is in the buffer then, and the
process is about to end. `Known` is needed too: an event without an object for data has never come to
the buffer, so `jump` never skips one.

Sizes are exact because `AtoiOfDecimal` holds for every int. `std::to_string` and
`atoi` go through ten digits at most, so this needs no induction: division and
remainder are unrolled over a table of ten powers (`PowerStep`, `TopDigit`), and
`atoi` is a function on `0..10`. `ObjectAt`, `NoDataAt`, `ArrayAt` and `NoBraceInTail`
say what stands in the text behind a size, `Slice` and `ObjectEnds` what is cut out
of it and that the JSON parser takes it; each action of the reader has a lemma
(`BeginStep` to `ReadDataStep`) built from these. TLC finds no violation of
`WireInv` on the instance of `event_wire` when it is added to
`MCEventWire.cfg`.

**`ConnectorTableProofs`**, the lock (any finite set of threads, any depth).
`SerialInv` holds as long as no two calls have overlapped: one thread at most is
inside a call, and `n` and `mt` are right but for what it is about to do. From it
`SerialUseIsSound` and, what is more telling, `SerialUseNeverWaits`: even then
the lock keeps nobody out. `StuckStays` needs no such premise.
`AloneImplementsLock`: for one thread it is a recursive lock.

**`ConnectorTableProofs`**, the table this lock leaves open (any requests, peers,
initial rows, lost calls and forgotten ids; `ReturnsAssumption` only says that the constants have
their kind). `ReturnsInv` holds whatever meets in `manager_returns`
(`RowsInvariant`); its parts say more, the less has met. `IdsMoves` and `RowsMoves`
split each step into one of the rows and one of the ids, which leave each other
alone:

- always: ids are empty only after a lost call, and only of a peer that says
  `$error` (`IdsInv`); a peer's numbers tell its copies of requests apart (`CopiesInv`), and
  `send()` knows the number of the last copy of its request (`SentInv`), so an
  answer to an earlier copy can be told from one to the last;
- as long as nobody clears a row in memory that the rows have left
  (`OnceInv`): a callback is in one row at most, and in none once it has run,
  except the one being cleared. This gives `CallbacksRunOnce`;
- as long as no two calls of `add()` overlap (`OwnInv`): a row with a callback has
  the number of its own request and no other peer's name, even while the worker is
  clearing members in between; and the row being filled is not the row being
  cleared. This gives `AnswersAreOwn`. It is not enough to know that a row in use
  is complete, since the worker empties a row in three steps;
- as long as nobody has met anybody (`QuietInv`): every row is empty, complete, or
  the one somebody is at. This gives `CallbacksAreKept`.

**`ConnectorLifeProofs`** (any number of peers and calls). `CountInv` relates
calls of `off()` to deleted thread objects, whatever the order of calls; that is
why a second `off()` after one `on()` cannot return (`OffsEndPairs`). `PairedInv`
and `ObjectInv` follow the last pair through `on()` and `off()` in paired use.
`LostStays`: a worker asleep when the last poll has ended is never woken.

**`CrowConnectionProofs`** (any connections, timeout, bounds). `OneDeadlineEach`
(a scheduled task is the last of its connection, under an identifier that is not
issued again), `DueRight` and `ActiveInv` make `IInv`. From it
`DeadlinesNotEarly`, `DeadlinesBeforeTimeout`, `LossesExplained` and
`ClosedInTimeAlone`. `OneWrite` has the invariant `WriteInv`: while an answer is
being written, the parser still holds the request it answers and ignores input. It
is about the connections that were neither told to continue nor sent bytes behind
a body in one read: for both the code begins a second write while the first one is
outstanding, and `handle()` of the model does so too.

**Model-checked only.** Liveness is beyond the proof system: `GateIsReleased`,
`WaitingIsTaken`, `OffEndsOrLost`, `LiveIsServed`, `RecoversOrForgotten` and
`HandlersReturn`. Every other property of a passing run is stated by a theorem,
for all values of the constants that the assumptions of its module allow.

**Proved only.** Properties with a proof that no run lists: `MutualExclusion`,
`IndexStillMine`, `UniqueHashes`, `NoDuplicateRows`, `AnswerIsOwnGroup`,
`FiredOnce`, `NoDuplicateTasks`, `SweepLeavesListed`, `TakesOnlyWhatItRuns`,
`NobodyWaits`, `OneDeadlineEach`, `SafeUntilFirstTimeout`, `NeverEarly`,
`LostIsForever`, and `ImplementsLock` of `ConnectorMutex`.

## 5. Assumptions of the models

- No two event hashes are made from the same text, and `sha256` does not collide.
  The text is `server_hash`, group, time, index, `clock()` and `count_restart` without
  separators (`tasker_manager.cpp:102-108`), so that the digits of two different
  hashes could in principle be the same, and `clock()` could be the same twice:
  what the models take as given is that this does not happen (`NewHash`). It is the
  premise of unique ids, and no property covers it.
- In the tasker, `name_server` is set before requests arrive (`set_name_server`
  is not synchronised).
- In the connector, a data race on a slot has no effect finer than the slot
  other than ending the process, and `mutex_n` never delays a thread except by
  hanging it: both give the threads more interleavings, not fewer.
- In `Connector`, every event a peer lists has `data` (`EventWire` is about
  those that have none), and a peer gives a request of this node one
  `$respon_id` (`Returns` is about repeated ones).
- A peer numbers the requests it gets. This repository's server does not: it
  answers every event with `$respon_id` 0 (`controller.cpp:28`). `Returns`
  models the peers the connector is written for.
- In `Returns`, a peer that forgets ids keeps its name and its numbers. The code
  reads `server_hash` again after the POST (`connector_manager.h:578`), so that a
  request whose peer was given another name in between is stored under a name its
  answer does not have. One thread stands for the poll and for the other calls that
  ask for new ids without repeating (`start_event()`, and `end_event()` behind a
  callback).
- In `Connections`, only the poll asks for new ids; that the worker's `start_event()`
  and `end_event()` may do so too, and may empty them, is in `Returns`.
- In `ConnectorLife`, `on()` is called by one thread at a time and not while the
  manager is destroyed.
- In `CrowConnection`, answers are written by `do_write()`; a streamed one
  (`do_write_general`) clears the parser before `handle()` returns. asio runs the handlers of one worker thread one after
  another, in any order that the operating system's reports allow.

## 6. Not modelled, and why

- `Logger`: file output; no caller opens a file, so it prints to stdout.
- `set_name_server`, `stop_server` and `add_conn_server` have no caller in
  `main.cpp`; `stop_server` appears as a call of `off()`. `handle_transfer` has
  no statements: a transferred event changes nothing.
- `isPortOccupied`, the two-argument `get_new_client`, `get_server_hash`,
  `init_client`, `clear_event` and `delete_object` of `manager_returns`: no
  caller. `sha256`, `GetLocalIP`: library calls.
- `curl_wrapper`: its calls appear as answered, failed, or answered and lost.
- Crow, but for connections and timer: starting and stopping the server and
  handing connections to worker threads, where nothing of this program's state
  is involved. Two things seen there on reading: `task_queue_length_pool_`
  counts a connection (`http_server.h:221`) and never counts it off when it
  ends, so it ranks the workers by how many they have been given and not by how
  many they have; `wait_for_server_start` waits without a predicate
  (`app.h:532`). Routing (this program's routes are fixed literals), JSON, TLS,
  websockets, static and streamed files, templates and middlewares.
- asio: vendored.

Nearly all lines of the repository are asio's and Crow's, so the modelled lines
are a small part of them. Of the program's own code, everything that
changes shared state on a request, a poll, a callback or a start or stop is an
action of a module.

## 7. Plan

Done: the server's lock, its tables and its threads; the connector's threads,
lock, peers, wire format, callbacks and life cycle; the connections under the
server; proofs for all modules that model code.

What could follow, in this order:

1. Crow's start and stop: `run`, `stop`, `wait_for_server_start` and the
   hand-out of connections to workers.
2. A composition of `Connections` and `ConnectorLife`: how long `off()` has to
   wait for a poll that is calling dead peers.
