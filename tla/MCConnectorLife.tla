--------------------------- MODULE MCConnectorLife ---------------------------
(***************************************************************************)
(* Instances of ConnectorLife: on() and off() called in any order.         *)
(***************************************************************************)
EXTENDS ConnectorLife
=============================================================================
