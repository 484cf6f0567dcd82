-------------------------- MODULE MCRecursiveMutex --------------------------
(***************************************************************************)
(* Three threads, two levels of nesting (tasker_manager::mt is taken by an *)
(* operation and again by find_group).                                     *)
(***************************************************************************)
EXTENDS RecursiveMutex
=============================================================================
