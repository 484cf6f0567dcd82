-------------------------- MODULE MCTaskerThreads --------------------------
(***************************************************************************)
(* Two threads that serve the requests of one worker for two groups.       *)
(***************************************************************************)
EXTENDS TaskerThreads

CONSTANTS t1, t2, w1, tasker, node

MCThreads == {t1, t2}
MCWorkers == {w1}
MCGroups == {tasker, node}

\* To the next server, to nobody, and without "$respon_id".
MCMessages ==
  { [list_servers |-> <<tasker, node>>, respon_id |-> TRUE],
    [list_servers |-> <<node>>, respon_id |-> TRUE],
    [list_servers |-> <<tasker>>, respon_id |-> FALSE] }
=============================================================================
