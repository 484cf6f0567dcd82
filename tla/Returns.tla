------------------------------- MODULE Returns -------------------------------
(***************************************************************************)
(* connector::manager_returns (connector_manager.h:318-381), the rows that *)
(* keep the callbacks of requests until their responses come, with who     *)
(* works on them: send() of the application's threads (546-580), which     *)
(* repeats its POST until it is answered and adds a row afterwards, and    *)
(* the worker, which calls back and, in a handler, sends responses         *)
(* (581-621).                                                              *)
(*                                                                         *)
(* mt_ret keeps nobody out (ConnectorMutex), so the rows are read and      *)
(* written member by member, in the order of the code.  Connector has the  *)
(* rows as a set and send() as one attempt.                                *)
(*                                                                         *)
(* The peers are external: each numbers the copies of requests it gets. A  *)
(* POST is lost on its way or on the way back, and repeated either way.    *)
(*                                                                         *)
(* A peer may forget the ids it gave this node.  Some peers answer         *)
(* "$error" then, and the caller asks for new ids in get_myid(); if that   *)
(* call is lost, all but send() and send_response() store empty ids, and a *)
(* URL with empty ids has no route.  This repository's server never says   *)
(* "$error": it answers a finishing call for a group it has not with       *)
(* status -1, until a poll of the node has made the group.  A restart of a *)
(* peer is such a forgetting: that it also changes its name and numbers is *)
(* left out.                                                               *)
(***************************************************************************)
EXTENDS Integers, Sequences, FiniteSets

CONSTANTS
  Requests,    \* calls of send(), each in a thread of its own
  Server,      \* Server[r]: the peer a request is sent to, by its server_hash
  NoServer,    \* server_hash ""
  NoRequest,   \* callback NULL
  InitialRows, \* rows of a new manager_returns (25 in the code)
  Tells,       \* peers that answer "$error" to ids they have forgotten
  MaxLoad      \* bound on calls of send(), lost calls and forgotten ids together

ASSUME ReturnsAssumption ==
  /\ NoRequest \notin Requests
  /\ \A r \in Requests : Server[r] # NoServer
  /\ InitialRows \in Nat
  /\ MaxLoad \in Nat

Servers == {Server[r] : r \in Requests}

None == -1   \* no $respon_id

VARIABLES
  copies,    \* what the peers have got: [request, server, id]
  ended,     \* whether the event being handled is finished at the peer
  lost,      \* lost calls
  rows,      \* manager_returns::returns
  sending,   \* sending[r]: where send() is
  id,        \* id[r]: its respon_id
  at,        \* at[r]: its index into rows
  wpc,       \* where the worker is
  event,     \* the copy in its json
  wat,       \* its index into rows
  moved,     \* who works on a row of the memory that push_back() has left
  calls,     \* history: how often the callback of a request ran, as far as twice
  strange,   \* history: a callback was given an answer to something else
  overlap,   \* history: what overlapped in manager_returns: "adds", "call"
  ids,       \* ids[p]: what connections has for peer p: "good", "stale" or "empty"
  asking,    \* who is in get_myid(): senders, and the worker as NoRequest
  polling,   \* the peer for which the thread that polls is there, or NoServer
  forgets,   \* how often a peer has forgotten ids
  hung       \* a thread waits for ever in lock() of a connector::mutex_n

peerVars == <<copies, ended, lost>>
sendVars == <<sending, id, at>>
workVars == <<wpc, event, wat>>
histVars == <<calls, strange, overlap>>
restVars == <<copies, ended, rows, sendVars, workVars, moved, histVars>>
idVars == <<ids, asking, polling, forgets, hung>>
returnsVars == <<restVars, lost, idVars>>

\* return_data without json_send, which nobody reads but the callback.
Row == [server_hash : Servers \cup {NoServer},
        respon_id : Int, callback : Requests \cup {NoRequest}]

\* What send() adds for request r.  It reads the peer's server_hash again after
\* the POST; that a restart of the peer has changed it meanwhile is left out.
Full(r) == [server_hash |-> Server[r], respon_id |-> id[r], callback |-> r]

EmptyRow == [server_hash |-> NoServer, respon_id |-> None, callback |-> NoRequest]

NoEvent == [request |-> NoRequest, server |-> NoServer, id |-> None]

ReturnsInit ==
  /\ copies = {} /\ ended = FALSE /\ lost = 0
  /\ rows = [k \in 1..InitialRows |-> EmptyRow]
  /\ sending = [r \in Requests |-> "out"]
  /\ id = [r \in Requests |-> None]
  /\ at = [r \in Requests |-> 1]
  /\ wpc = "out" /\ event = NoEvent /\ wat = 1
  /\ moved = {}
  /\ calls = [r \in Requests |-> 0] /\ strange = FALSE
  /\ overlap = {}
  /\ ids = [p \in Servers |-> "good"] /\ asking = {} /\ polling = NoServer
  /\ forgets = 0 /\ hung = FALSE

Adding(r) == sending[r] \in {"scan", "hash", "id", "callback"}
InCall == wpc \in {"call", "clear", "clear_id", "clear_hash"}

\* Who comes to manager_returns while others are there.
Meets(call) ==
  overlap' = overlap
    \cup (IF \E r \in Requests : Adding(r) THEN {IF call THEN "call" ELSE "adds"} ELSE {})
    \cup (IF ~call /\ InCall THEN {"call"} ELSE {})

\* A call with the ids of connections is carried out, or answered "$error".
Takes(p) == ids[p] \in {"good"} \cup (IF p \in Tells THEN {} ELSE {"stale"})
Rejects(p) == ids[p] = "stale" /\ p \in Tells

Load == lost + forgets + Cardinality({r \in Requests : sending[r] # "out"})
LoseCall == Load < MaxLoad /\ lost' = lost + 1

-----------------------------------------------------------------------------
\* send()

Copy(r) == [request |-> r, server |-> Server[r],
            id |-> Cardinality({c \in copies : c.server = Server[r]})]

SendGoes(r, from, to) == sending[r] = from /\ sending' = [sending EXCEPT ![r] = to]

CallSend(r) ==
  /\ SendGoes(r, "out", "post") /\ Load < MaxLoad
  /\ UNCHANGED <<peerVars, rows, id, at, workVars, moved, histVars>>

\* Mutant: the id of the first copy is kept.
PostKeepsFirst(r) ==
  /\ r \notin asking /\ Takes(Server[r])
  /\ copies' = copies \cup {Copy(r)}
  /\ id' = [id EXCEPT ![r] = IF @ = None THEN Copy(r).id ELSE @]
  /\ \/ SendGoes(r, "post", "scan") /\ Meets(FALSE) /\ UNCHANGED <<ended, lost>>
     \/ /\ sending[r] = "post" /\ LoseCall
        /\ UNCHANGED <<ended, sending, overlap>>
  /\ UNCHANGED <<rows, at, workVars, moved, calls, strange>>

Post(r) ==
  /\ r \notin asking
  /\ \/ /\ SendGoes(r, "post", "scan") /\ Takes(Server[r])
        /\ copies' = copies \cup {Copy(r)}
        /\ id' = [id EXCEPT ![r] = Copy(r).id]
        /\ Meets(FALSE) /\ UNCHANGED <<ended, lost>>
     \/ /\ sending[r] = "post" /\ LoseCall
        /\ \/ copies' = copies
           \/ Takes(Server[r]) /\ copies' = copies \cup {Copy(r)}
        /\ UNCHANGED <<ended, sending, id, overlap>>
  /\ UNCHANGED <<rows, at, workVars, moved, calls, strange>>

Add == UNCHANGED <<peerVars, id, workVars, histVars>>

\* Those who have the address of a row when push_back() moves the rows.
AtRows == {u \in Requests : sending[u] \in {"hash", "id", "callback"}}
            \cup (IF wpc \in {"clear", "clear_id", "clear_hash"} THEN {NoRequest} ELSE {})

\* Mutant: no new row is made.
ScanPast(r) ==
  /\ sending[r] = "scan"
  /\ \/ /\ at[r] \in DOMAIN rows /\ rows[at[r]].respon_id # None
        /\ at' = [at EXCEPT ![r] = @ + 1] /\ UNCHANGED <<rows, sending, moved>>
     \/ /\ at[r] \in DOMAIN rows => rows[at[r]].respon_id = None
        /\ sending' = [sending EXCEPT ![r] = "hash"] /\ UNCHANGED <<rows, at, moved>>
  /\ Add

\* The first free row; or a new one behind all others.
Scan(r) ==
  /\ sending[r] = "scan"
  /\ \/ /\ at[r] \in DOMAIN rows /\ rows[at[r]].respon_id = None
        /\ sending' = [sending EXCEPT ![r] = "hash"] /\ UNCHANGED <<rows, at, moved>>
     \/ /\ at[r] \in DOMAIN rows /\ rows[at[r]].respon_id # None
        /\ at' = [at EXCEPT ![r] = @ + 1] /\ UNCHANGED <<rows, sending, moved>>
     \/ /\ at[r] \notin DOMAIN rows
        /\ rows' = Append(rows, Full(r))
        /\ moved' = moved \cup AtRows
        /\ sending' = [sending EXCEPT ![r] = "done"] /\ UNCHANGED at
  /\ Add

\* A member of row k is written by u, to memory that is freed if the rows moved.
Write(u, newRows) == rows' = IF u \in moved THEN rows ELSE newRows

\* returns[i] = d, member by member.
SetHash(r) ==
  /\ SendGoes(r, "hash", "id")
  /\ Write(r, [rows EXCEPT ![at[r]].server_hash = Server[r]])
  /\ UNCHANGED <<at, moved>> /\ Add

SetId(r) ==
  /\ SendGoes(r, "id", "callback")
  /\ Write(r, [rows EXCEPT ![at[r]].respon_id = id[r]])
  /\ UNCHANGED <<at, moved>> /\ Add

SetCallback(r) ==
  /\ SendGoes(r, "callback", "done")
  /\ Write(r, [rows EXCEPT ![at[r]].callback = r])
  /\ moved' = moved \ {r}
  /\ UNCHANGED at /\ Add

Send(r) == Post(r) \/ Scan(r) \/ SetHash(r) \/ SetId(r) \/ SetCallback(r)

-----------------------------------------------------------------------------
\* The worker: an event of this node that start_event() was answered 0 for.

Goes(from, to) == wpc = from /\ wpc' = to

\* A response; one copy of a request may be answered more than once.
Response ==
  /\ Goes("out", "call")
  /\ event' \in copies
  /\ wat' = 1
  /\ Meets(TRUE)
  /\ UNCHANGED <<peerVars, rows, sendVars, moved, calls, strange>>

Matches(k) == rows[k].respon_id = event.id /\ rows[k].server_hash = event.server

Call == UNCHANGED <<peerVars, sendVars, overlap>>

\* An answer to r, to the last copy of it.
Own(r) == event.request = r /\ \A c \in copies : c.request = r => c.id <= event.id

\* Mutant: init_return_data() is not called.
CallRowKeeps ==
  /\ wpc = "call" /\ wat \in DOMAIN rows
  /\ \E r \in {rows[wat].callback} :
       \/ ~Matches(wat) /\ wat' = wat + 1 /\ UNCHANGED <<wpc, calls, strange>>
       \/ Matches(wat) /\ r = NoRequest /\ wpc' = "dead" /\ UNCHANGED <<wat, calls, strange>>
       \/ /\ Matches(wat) /\ r # NoRequest
          /\ calls' = [calls EXCEPT ![r] = IF @ = 2 THEN 2 ELSE @ + 1]
          /\ strange' = (strange \/ ~Own(r))
          /\ wat' = wat + 1 /\ UNCHANGED wpc
  /\ UNCHANGED <<rows, moved, event>> /\ Call

\* manager_returns::call() goes through all rows; a callback that is not there
\* yet is the end of the process.
CallRow ==
  /\ wpc = "call" /\ wat \in DOMAIN rows
  /\ \E r \in {rows[wat].callback} :
       \/ ~Matches(wat) /\ wat' = wat + 1 /\ UNCHANGED <<wpc, calls, strange>>
       \/ Matches(wat) /\ r = NoRequest /\ wpc' = "dead" /\ UNCHANGED <<wat, calls, strange>>
       \/ /\ Matches(wat) /\ r # NoRequest
          /\ calls' = [calls EXCEPT ![r] = IF @ = 2 THEN 2 ELSE @ + 1]
          /\ strange' = (strange \/ ~Own(r))
          /\ wpc' = "clear" /\ UNCHANGED wat
  /\ UNCHANGED <<rows, moved, event>> /\ Call

CallDone ==
  /\ Goes("call", "out") /\ wat \notin DOMAIN rows
  /\ event' = NoEvent
  /\ UNCHANGED <<rows, wat, moved, calls, strange>> /\ Call

\* init_return_data(), member by member.
ClearCallback ==
  /\ Goes("clear", "clear_id")
  /\ Write(NoRequest, [rows EXCEPT ![wat].callback = NoRequest])
  /\ UNCHANGED <<event, wat, moved, calls, strange>> /\ Call

ClearId ==
  /\ Goes("clear_id", "clear_hash")
  /\ Write(NoRequest, [rows EXCEPT ![wat].respon_id = None])
  /\ UNCHANGED <<event, wat, moved, calls, strange>> /\ Call

ClearHash ==
  /\ Goes("clear_hash", "call")
  /\ Write(NoRequest, [rows EXCEPT ![wat].server_hash = NoServer])
  /\ wat' = wat + 1 /\ moved' = moved \ {NoRequest}
  /\ UNCHANGED <<event, calls, strange>> /\ Call

-----------------------------------------------------------------------------
\* send_response(), in the handler of a request that came back to this node

Handling == UNCHANGED <<rows, sendVars, moved, histVars>>

Request ==
  /\ Goes("out", "respond")
  /\ event' \in copies
  /\ ended' = FALSE
  /\ UNCHANGED <<copies, lost, wat>> /\ Handling

\* The POST of the response, until its answer is here.
Respond ==
  /\ wpc = "respond" /\ NoRequest \notin asking
  /\ \/ Takes(event.server) /\ wpc' = "check" /\ lost' = lost
     \/ LoseCall /\ wpc' = wpc
  /\ wat' = 1
  /\ UNCHANGED <<copies, ended, event>> /\ Handling

\* manager_returns::check()
Check ==
  /\ wpc = "check"
  /\ \/ /\ wat \in DOMAIN rows /\ Matches(wat) /\ wpc' = "end" /\ UNCHANGED <<event, wat>>
     \/ /\ wat \in DOMAIN rows /\ ~Matches(wat) /\ wat' = wat + 1 /\ UNCHANGED <<wpc, event>>
     \/ /\ wat \notin DOMAIN rows /\ wpc' = "out" /\ event' = NoEvent /\ UNCHANGED wat
  /\ UNCHANGED peerVars /\ Handling

\* Mutant: what the peer does not know is asked for again.
EndUntilOk ==
  /\ wpc = "end" /\ NoRequest \notin asking
  /\ \/ /\ ~ended /\ ids[event.server] = "good"
        /\ wpc' = "out" /\ event' = NoEvent /\ UNCHANGED <<ended, lost>>
     \/ /\ LoseCall
        /\ ended' = (ended \/ ids[event.server] = "good") /\ UNCHANGED <<wpc, event>>
  /\ UNCHANGED <<copies, wat>> /\ Handling

\* end_event() until it is not -1: the peer says 0, or -2 of an event it has not.
\* A peer that has forgotten the group says -1, or "$error".
End ==
  /\ wpc = "end" /\ NoRequest \notin asking
  /\ \/ /\ ids[event.server] = "good"
        /\ ended' = FALSE /\ lost' = lost /\ wpc' = "out" /\ event' = NoEvent
     \/ /\ LoseCall
        /\ \/ ended' = ended
           \/ ids[event.server] = "good" /\ ended' = TRUE
        /\ UNCHANGED <<wpc, event>>
  /\ UNCHANGED <<copies, wat>> /\ Handling

Worker ==
  \/ CallRow \/ CallDone \/ ClearCallback \/ ClearId \/ ClearHash
  \/ Respond \/ Check \/ End

\* All that is done to the rows.
RowsNext ==
  /\ wpc # "dead"
  /\ Response \/ Request \/ Worker \/ \E r \in Requests : CallSend(r) \/ Send(r)

-----------------------------------------------------------------------------
\* The ids in connections

Forget(p) ==
  /\ ids[p] = "good" /\ Load < MaxLoad
  /\ ids' = [ids EXCEPT ![p] = "stale"]
  /\ forgets' = forgets + 1
  /\ UNCHANGED <<lost, asking, polling, hung>>

\* getevent() is told "$error"; or its call has the peer make the group again.
\* It stands for start_event(), and for the end_event() behind a callback, too.
Poll(p) ==
  /\ polling = NoServer /\ ids[p] = "stale"
  /\ \/ p \in Tells /\ polling' = p /\ ids' = ids
     \/ p \notin Tells /\ ids' = [ids EXCEPT ![p] = "good"] /\ polling' = polling
  /\ UNCHANGED <<lost, asking, forgets, hung>>

\* send() and the worker are told "$error".
Told(u, p) ==
  /\ u \notin asking /\ Rejects(p)
  /\ asking' = asking \cup {u}
  /\ UNCHANGED <<lost, ids, polling, forgets, hung>>

SendTold(r) == sending[r] = "post" /\ Told(r, Server[r])
WorkTold == wpc \in {"respond", "end"} /\ Told(NoRequest, event.server)

\* With loop it repeats its call until it has an id; without, a call that is lost
\* leaves empty ids.
get_myid(p, loop) ==
  /\ \/ ids' = [ids EXCEPT ![p] = "good"] /\ lost' = lost
     \/ /\ ~loop /\ LoseCall
        /\ ids' = [ids EXCEPT ![p] = "empty"]
  /\ UNCHANGED <<forgets, hung>>

SendId(r) == /\ r \in asking /\ get_myid(Server[r], TRUE)
             /\ asking' = asking \ {r} /\ polling' = polling

\* send_response() asks with loop, end_event() without.
WorkId == /\ NoRequest \in asking /\ get_myid(event.server, wpc = "respond")
          /\ asking' = asking \ {NoRequest} /\ polling' = polling

PollId == /\ polling # NoServer /\ get_myid(polling, FALSE)
          /\ polling' = NoServer /\ asking' = asking

\* Threads overlap in mt_n, and one hangs.  Said only where something is promised
\* of the worker: elsewhere it is as if it were not scheduled.
Hang ==
  /\ wpc \in {"respond", "check", "end"}
  /\ hung' = TRUE
  /\ UNCHANGED <<lost, ids, asking, polling, forgets>>

PollIds == PollId \/ \E p \in Servers : Poll(p)
WorkIds == WorkTold \/ WorkId

IdsNext == \/ PollIds \/ WorkIds \/ Hang
           \/ \E p \in Servers : Forget(p)
           \/ \E r \in Requests : SendTold(r) \/ SendId(r)

ReturnsNext ==
  /\ ~hung /\ wpc # "dead"
  /\ \/ RowsNext /\ UNCHANGED idVars
     \/ IdsNext /\ UNCHANGED restVars

ReturnsSpec == ReturnsInit /\ [][ReturnsNext]_returnsVars

\* The worker and the thread that polls are scheduled unless they hang, and their
\* calls end; nothing is asked of the senders.
FairReturnsSpec ==
  /\ ReturnsSpec
  /\ WF_returnsVars(ReturnsNext /\ (Worker \/ WorkIds))
  /\ WF_returnsVars(ReturnsNext /\ PollIds)

-----------------------------------------------------------------------------
(* Properties *)

ReturnsTypeOK ==
  /\ copies \subseteq [request : Requests, server : Servers, id : Nat]
  /\ ended \in BOOLEAN
  /\ lost \in Nat
  /\ rows \in Seq(Row)
  /\ sending \in [Requests -> {"out", "post", "scan", "hash", "id", "callback", "done"}]
  /\ id \in [Requests -> Nat \cup {None}]
  /\ at \in [Requests -> 1..(Len(rows) + 1)]
  /\ \A r \in Requests : sending[r] \in {"hash", "id", "callback"} => at[r] \in DOMAIN rows
  /\ wpc \in {"out", "call", "clear", "clear_id", "clear_hash", "respond", "check", "end", "dead"}
  /\ event \in copies \cup {NoEvent}
  /\ wat \in 1..(Len(rows) + 1)
  /\ wpc \in {"clear", "clear_id", "clear_hash"} => wat \in DOMAIN rows
  /\ moved \subseteq Requests \cup {NoRequest}
  /\ calls \in [Requests -> 0..2]
  /\ strange \in BOOLEAN
  /\ overlap \subseteq {"adds", "call"}

\* The rows in which call() finds request r.
RowsOf(r) == {k \in DOMAIN rows : rows[k] = Full(r)}

\* As long as nobody comes to manager_returns while another is there, a request
\* that send() has returned from has one row until its callback runs, and no
\* callback is missing when it is called.
SerialKeepsCallbacks ==
  overlap = {} =>
    /\ wpc # "dead"
    /\ \A r \in Requests :
          sending[r] = "done" =>
            \/ Cardinality(RowsOf(r)) = 1 /\ calls[r] = 0
            \/ RowsOf(r) = {} /\ calls[r] = 1
            \/ wpc = "clear" /\ RowsOf(r) = {wat} /\ calls[r] = 1

\* Unless two threads add at once, a callback is given answers to its own request
\* only, and of several copies of it only to the one whose number send() was told.
OwnAnswer == "adds" \notin overlap => ~strange

\* However the threads overlap, a callback runs once at most, as long as the
\* rows do not move while somebody clears one.
CalledOnce == (overlap = {} \/ Len(rows) = InitialRows) => \A r \in Requests : calls[r] <= 1

\* As long as no lock hangs, and with finitely many lost calls and forgotten ids,
\* send_response() returns, although it repeats a finishing call that has been
\* carried out already; unless a call of get_myid() without loop was lost and left
\* the peer's ids empty, for then the loop around end_event() has no end.
HandlersReturn ==
  ([]~hung) =>
    (wpc \in {"respond", "check", "end"} ~> wpc = "out" \/ ids[event.server] = "empty")

-----------------------------------------------------------------------------
(* The inductive invariant the proofs use *)

\* A peer numbers the copies it has got, each by how many there were before.
CopiesInv ==
  /\ IsFiniteSet(copies)
  /\ \A c \in copies : /\ c.server = Server[c.request]
                       /\ c.id < Cardinality({d \in copies : d.server = c.server})
  /\ \A c, d \in copies : c.server = d.server /\ c.id = d.id => c = d
  /\ wpc \in {"call", "clear", "clear_id", "clear_hash"} => event \in copies

\* send() has been told the number of the last copy.
SentInv ==
  \A r \in Requests :
    sending[r] \notin {"out", "post"} =>
      /\ [request |-> r, server |-> Server[r], id |-> id[r]] \in copies
      /\ \A c \in copies : c.request = r => c.id <= id[r]

OverlapInv ==
  /\ "adds" \notin overlap => \A q, r \in Requests : Adding(q) /\ Adding(r) => q = r
  /\ "call" \notin overlap => ~(InCall /\ \E r \in Requests : Adding(r))

MovedInv ==
  /\ moved \subseteq AtRows
  /\ Len(rows) >= InitialRows
  /\ moved # {} => Len(rows) > InitialRows
  /\ overlap = {} => moved = {}
  /\ "adds" \notin overlap => moved \subseteq {NoRequest}

\* Nobody clears a row in the memory that the rows have left.
NoStrayClear == overlap = {} \/ Len(rows) = InitialRows

\* A request has one row at most, none before send() puts the callback there, and
\* none but the one that is being cleared once the callback has run.
OnceInv ==
  NoStrayClear =>
    /\ \A k, l \in DOMAIN rows :
          rows[k].callback = rows[l].callback /\ rows[k].callback # NoRequest => k = l
    /\ \A r \in Requests :
          /\ calls[r] <= 1
          /\ sending[r] # "done" => calls[r] = 0
          /\ \A k \in DOMAIN rows :
                rows[k].callback = r => /\ sending[r] = "done"
                                        /\ calls[r] = 1 => wpc = "clear" /\ wat = k

Clearing == wpc \in {"clear", "clear_id"}

\* With one thread that adds: a row that is free has no callback, a row that has
\* one has the number and, unless the worker has cleared it, the peer of the
\* request, and the row that send() fills is not the one the worker clears.
OwnInv ==
  "adds" \notin overlap =>
    /\ ~strange
    /\ \A k \in DOMAIN rows :
          LET q == rows[k].callback
          IN  IF q = NoRequest THEN TRUE
              ELSE /\ sending[q] = "done"
                   /\ rows[k].respon_id = id[q]
                   /\ rows[k].server_hash \in {Server[q], NoServer}
    /\ \A r \in Requests :
          sending[r] \in {"hash", "id", "callback"} =>
            /\ rows[at[r]].callback = NoRequest
            /\ Clearing => wat # at[r]
            /\ rows[at[r]].respon_id = IF sending[r] = "callback" THEN id[r] ELSE None
            /\ sending[r] # "hash" => rows[at[r]].server_hash \in {Server[r], NoServer}
    /\ Clearing => rows[wat].respon_id # None
    /\ wpc = "clear_id" /\ NoRequest \notin moved => rows[wat].callback = NoRequest

\* As long as nobody meets anybody, a row without a callback is empty, or its
\* members are being written, and one with a callback is complete.
QuietInv ==
  overlap = {} =>
    /\ wpc # "dead"
    /\ \A k \in DOMAIN rows :
          \/ rows[k] = EmptyRow
          \/ \E r \in Requests : rows[k] = Full(r)
          \/ \E r \in Requests : at[r] = k /\ sending[r] \in {"id", "callback"}
          \/ wat = k /\ wpc \in {"clear_id", "clear_hash"}
    /\ \A r \in Requests :
          /\ sending[r] = "hash" => rows[at[r]] = EmptyRow
          /\ sending[r] = "id" => rows[at[r]] = [EmptyRow EXCEPT !.server_hash = Server[r]]
          /\ sending[r] = "callback" => rows[at[r]] = [Full(r) EXCEPT !.callback = NoRequest]
          /\ sending[r] = "done" => calls[r] = 1 \/ \E k \in DOMAIN rows : rows[k] = Full(r)
    /\ wpc = "clear" => \E r \in Requests : rows[wat] = Full(r) /\ calls[r] = 1
    /\ wpc \in {"clear_id", "clear_hash"} => rows[wat].callback = NoRequest
    /\ wpc = "clear_hash" => rows[wat].respon_id = None

\* Who asks for ids was told "$error"; they are empty only after a lost call.
IdsInv ==
  /\ ids \in [Servers -> {"good", "stale", "empty"}]
  /\ asking \subseteq Requests \cup {NoRequest}
  /\ polling \in Servers \cup {NoServer}
  /\ forgets \in Nat
  /\ hung \in BOOLEAN
  /\ \A r \in asking \ {NoRequest} : sending[r] = "post" /\ Server[r] \in Tells
  /\ NoRequest \in asking => wpc \in {"respond", "end"} /\ event.server \in Tells
  /\ polling # NoServer => polling \in Tells
  /\ \A p \in Servers : ids[p] = "empty" => p \in Tells /\ lost > 0

ReturnsInv ==
  /\ ReturnsTypeOK /\ CopiesInv /\ SentInv /\ OverlapInv /\ MovedInv
  /\ OnceInv /\ OwnInv /\ QuietInv /\ IdsInv
=============================================================================
