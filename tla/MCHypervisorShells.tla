------------------------- MODULE MCHypervisorShells -------------------------
(***************************************************************************)
(* HypervisorShells on small instances.                                    *)
(***************************************************************************)
EXTENDS HypervisorShells, TLC

ShellSymmetry == Permutations(Shells)
Symmetry == ShellSymmetry \cup Permutations(Projects)
=============================================================================
