------------------------- MODULE MCDesktopAuthority -------------------------
(* Finite instances of DesktopAuthority. *)
EXTENDS DesktopAuthority

CONSTANTS t1, t2, o1, o2
=============================================================================
