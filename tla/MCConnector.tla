----------------------------- MODULE MCConnector -----------------------------
(***************************************************************************)
(* Instances of Connector: two connections with events of several kinds,   *)
(* and one connection with events the worker takes.                        *)
(***************************************************************************)
EXTENDS Connector

CONSTANTS e1, e2, e3, e4, r1

\* Two responses to one request, each from a peer of its own, an event of
\* another type and a request without a handler.
MixIds == {e1, e2, e3, e4}
MixHome == [id \in MixIds |-> IF id \in {e1, e3} THEN 1 ELSE 2]
MixKind == [id \in MixIds |-> CASE id \in {e1, e2} -> "res"
                                 [] id = e3 -> "other" [] id = e4 -> "unhandled"]
MixReturns == {r1}
MixRespon == [id \in {e1, e2} |-> r1]

\* One peer, and only events that the worker takes.
OneIds == {e1, e2}
OneHome == [id \in OneIds |-> 1]
OneKind == [id \in OneIds |-> "req"]
NoReturns == {}
NoRespon == << >>
=============================================================================
