------------------------------ MODULE MCFiles ------------------------------
(***************************************************************************)
(* Files on small instances.                                               *)
(***************************************************************************)
EXTENDS Files, TLC

Symmetry == Permutations(Paths)
=============================================================================
