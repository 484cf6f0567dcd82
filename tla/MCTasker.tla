------------------------------ MODULE MCTasker ------------------------------
(***************************************************************************)
(* Two workers, two groups that URLs can name (one has the server's own    *)
(* name) and the empty group, one slot per new group.                      *)
(***************************************************************************)
EXTENDS Tasker, TLC

CONSTANTS w1, w2, tasker, node

MCWorkers == {w1, w2}
MCGroups == {tasker, node}

\* To the next server, to this one, to nobody, and without "$respon_id".
MCMessages ==
  { [list_servers |-> <<tasker, node>>, respon_id |-> TRUE],
    [list_servers |-> <<node, tasker>>, respon_id |-> TRUE],
    [list_servers |-> <<node>>, respon_id |-> TRUE],
    [list_servers |-> <<tasker, node>>, respon_id |-> FALSE] }

WorkerSymmetry == Permutations(MCWorkers)
=============================================================================
