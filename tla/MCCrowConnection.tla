-------------------------- MODULE MCCrowConnection --------------------------
(***************************************************************************)
(* Instances of CrowConnection: two connections that share a timer.        *)
(***************************************************************************)
EXTENDS CrowConnection
=============================================================================
