--------------------------- MODULE MCHypervisorLink ---------------------------
(***************************************************************************)
(* HypervisorLink on a small instance.                                     *)
(***************************************************************************)
EXTENDS HypervisorLink
=============================================================================
