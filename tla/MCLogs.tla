------------------------------- MODULE MCLogs -------------------------------
(***************************************************************************)
(* The logs component for TLC.  The runs check liveness as well as safety, *)
(* so they use no symmetry.                                                *)
(***************************************************************************)
EXTENDS Logs

=============================================================================
