------------------------ MODULE MCSessionLifecycle ------------------------
(* Finite instances of SessionLifecycle. *)
EXTENDS SessionLifecycleClaims, SessionRefinement, TLC

CONSTANTS s1, s2, o1, o2, c1, c2

MCSelfOwned == {}
\* Callers are interchangeable: no definition tells one from another.
CallerSymmetry == Permutations(Callers)
=============================================================================
