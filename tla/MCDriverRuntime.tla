-------------------------- MODULE MCDriverRuntime ---------------------------
(* Finite instances of DriverRuntime. *)
EXTENDS DriverRuntime

CONSTANTS p1, h1, h2, x1, x2, l1
=============================================================================
