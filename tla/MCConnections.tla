---------------------------- MODULE MCConnections ----------------------------
(***************************************************************************)
(* Instances of Connections: two peers, with the bounds of the back-off    *)
(* scaled down, whose order is that of the code.                           *)
(***************************************************************************)
EXTENDS Connections
=============================================================================
