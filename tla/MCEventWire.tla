----------------------------- MODULE MCEventWire -----------------------------
(***************************************************************************)
(* EventWire with the sizes of this server's ids, and sizes of meta and    *)
(* data with one, two and three digits.                                    *)
(***************************************************************************)
EXTENDS EventWire, TLC

Symmetry == Permutations(Hashes)
=============================================================================
