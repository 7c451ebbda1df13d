------------------------------- MODULE MCServer -------------------------------
(***************************************************************************)
(* Server on small instances.                                              *)
(***************************************************************************)
EXTENDS Server

CONSTANTS b1, b2

\* Every pipe but the outputs of the second build.
SomePipes == (Builds \X {"stdout", "status"}) \ {<<b2, "stdout">>}
=============================================================================
