------------------------- MODULE MCComputerHistory -------------------------
(* Finite instances of ComputerHistory. *)
EXTENDS ComputerHistory

CONSTANTS d1, d2
=============================================================================
