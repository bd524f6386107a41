-------------------------- MODULE MCTrustedResume --------------------------
(* Finite instances of TrustedResume. *)
EXTENDS TrustedResume

CONSTANT a
=============================================================================
