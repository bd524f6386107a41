-------------------------- MODULE MCSessionMirror ---------------------------
(* Finite instances of SessionMirror. *)
EXTENDS SessionMirror

CONSTANTS s1, o1, o2, r1, r2
=============================================================================
