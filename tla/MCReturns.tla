------------------------------ MODULE MCReturns ------------------------------
(***************************************************************************)
(* Instances of Returns: two requests to one peer and one to another, with *)
(* room for one row before the vector moves.                               *)
(***************************************************************************)
EXTENDS Returns, TLC

CONSTANTS r1, r2, r3, p1, p2

TwoPeers == [r \in Requests |-> IF r = r3 THEN p2 ELSE p1]
=============================================================================
