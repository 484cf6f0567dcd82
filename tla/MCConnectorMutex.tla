-------------------------- MODULE MCConnectorMutex --------------------------
(***************************************************************************)
(* Instances of ConnectorMutex: three threads whose calls overlap in every *)
(* way.                                                                   *)
(***************************************************************************)
EXTENDS ConnectorMutex
=============================================================================
